---- MODULE Spec2Model ----
(***************************************************************************)
(* Label derivation and data loading of the wavemill agent selector        *)
(* (src/dspy/prepare_data.py).  A text is a sequence of one-character       *)
(* strings; the compiled regular expressions are evaluated on it character *)
(* by character.  Scores are counted in hundredths (0.85 is 85), costs in  *)
(* whole units.                                                             *)
(***************************************************************************)
EXTENDS Integers, Sequences, FiniteSets, TLC

\* ---------------------------------------------------------------- characters

LowerOf ==
  [c \in {"A","B","C","D","E","F","G","H","I","J","K","L","M",
          "N","O","P","Q","R","S","T","U","V","W","X","Y","Z"} |->
     CASE c = "A" -> "a" [] c = "B" -> "b" [] c = "C" -> "c" [] c = "D" -> "d"
       [] c = "E" -> "e" [] c = "F" -> "f" [] c = "G" -> "g" [] c = "H" -> "h"
       [] c = "I" -> "i" [] c = "J" -> "j" [] c = "K" -> "k" [] c = "L" -> "l"
       [] c = "M" -> "m" [] c = "N" -> "n" [] c = "O" -> "o" [] c = "P" -> "p"
       [] c = "Q" -> "q" [] c = "R" -> "r" [] c = "S" -> "s" [] c = "T" -> "t"
       [] c = "U" -> "u" [] c = "V" -> "v" [] c = "W" -> "w" [] c = "X" -> "x"
       [] c = "Y" -> "y" [] c = "Z" -> "z"]

\* re.I: a character is compared by its lower-case form
Fold(c) == IF c \in DOMAIN LowerOf THEN LowerOf[c] ELSE c

Digits == {"0","1","2","3","4","5","6","7","8","9"}

\* \w
WordChars ==
  DOMAIN LowerOf \cup {LowerOf[c] : c \in DOMAIN LowerOf} \cup Digits \cup {"_"}

\* \s
Space == {" ", "\t", "\n", "\r"}

\* ------------------------------------------------- regular expression pieces
\* A piece maps the set P of positions where a match of the pattern so far may
\* end to the set of positions where it may end after the piece.  Position p
\* is the gap before character p; a search starts at any gap.

Start(s) == 1..(Len(s) + 1)

Ch(s, p, ic) == IF ic THEN Fold(s[p]) ELSE s[p]

\* the literal w at position p (w is given in lower case when ic)
AtLit(s, p, w, ic) ==
  /\ p + Len(w) - 1 <= Len(s)
  /\ \A k \in 1..Len(w) : Ch(s, p + k - 1, ic) = w[k]

Lit(s, P, w, ic) == {p + Len(w) : p \in {q \in P : AtLit(s, q, w, ic)}}

\* (w1|w2|...)
Alt(s, P, ws, ic) == UNION {Lit(s, P, w, ic) : w \in ws}

IsWordAt(s, p) == p >= 1 /\ p <= Len(s) /\ s[p] \in WordChars

\* \b
Bnd(s, P) == {p \in P : IsWordAt(s, p - 1) # IsWordAt(s, p)}

\* .?   (the dot does not match a newline)
OptAny(s, P) == P \cup {p + 1 : p \in {q \in P : q <= Len(s) /\ s[q] # "\n"}}

\* [...]? for a character class C (C holds both cases when ic)
OptIn(s, P, C) == P \cup {p + 1 : p \in {q \in P : q <= Len(s) /\ s[q] \in C}}

\* one character of class C
OneIn(s, P, C) == {p + 1 : p \in {q \in P : q <= Len(s) /\ s[q] \in C}}

\* .*
AnyStar(s, P) ==
  {q \in Start(s) : \E p \in P : p <= q /\ \A k \in p..(q - 1) : s[k] # "\n"}

\* \s*
SpaceStar(s, P) ==
  {q \in Start(s) : \E p \in P : p <= q /\ \A k \in p..(q - 1) : s[k] \in Space}

\* \s+
SpacePlus(s, P) == SpaceStar(s, OneIn(s, P, Space))

\* \b(w1|w2|...)\b
WordOf(s, P, ws, ic) == Bnd(s, Alt(s, Bnd(s, P), ws, ic))

\* \b(w1|w2|...   with no closing \b
WordStart(s, P, ws, ic) == Alt(s, Bnd(s, P), ws, ic)

\* pattern.search(s)
Found(P) == P # {}

\* ------------------------------------------------------- risk flag detection

FLAG_NAMES ==
  << "modifies-existing-runtime", "schema-migration", "large-scope-refactor",
     "cross-service", "rsc-serialization", "test-infrastructure" >>

\* RISK_PATTERNS[flag] searched in s: one boolean per compiled pattern
RISK_PATTERNS(flag, s) ==
  CASE flag = "modifies-existing-runtime" ->
       << \* \b(fix|update|modify|change|patch|refactor)\b
          Found(WordOf(s, Start(s), {<<"f","i","x">>, <<"u","p","d","a","t","e">>, <<"m","o","d","i","f","y">>, <<"c","h","a","n","g","e">>,
                                     <<"p","a","t","c","h">>, <<"r","e","f","a","c","t","o","r">>}, TRUE)),
          \* \b(existing|current|legacy)\b
          Found(WordOf(s, Start(s), {<<"e","x","i","s","t","i","n","g">>, <<"c","u","r","r","e","n","t">>, <<"l","e","g","a","c","y">>}, TRUE)),
          \* \bquery\b.*\b(prisma|sql)\b
          Found(WordOf(s, AnyStar(s, WordOf(s, Start(s), {<<"q","u","e","r","y">>}, TRUE)),
                       {<<"p","r","i","s","m","a">>, <<"s","q","l">>}, TRUE)) >>
    [] flag = "schema-migration" ->
       << \* \bprisma\b
          Found(WordOf(s, Start(s), {<<"p","r","i","s","m","a">>}, TRUE)),
          \* \bmigration\b
          Found(WordOf(s, Start(s), {<<"m","i","g","r","a","t","i","o","n">>}, TRUE)),
          \* \bbackward.?compat
          Found(Lit(s, OptAny(s, WordStart(s, Start(s), {<<"b","a","c","k","w","a","r","d">>}, TRUE)),
                    <<"c","o","m","p","a","t">>, TRUE)),
          \* \bschema\b.*\b(change|update|add)\b
          Found(WordOf(s, AnyStar(s, WordOf(s, Start(s), {<<"s","c","h","e","m","a">>}, TRUE)),
                       {<<"c","h","a","n","g","e">>, <<"u","p","d","a","t","e">>, <<"a","d","d">>}, TRUE)) >>
    [] flag = "large-scope-refactor" ->
       << \* \bmodulariz
          Found(WordStart(s, Start(s), {<<"m","o","d","u","l","a","r","i","z">>}, TRUE)),
          \* \brestructur
          Found(WordStart(s, Start(s), {<<"r","e","s","t","r","u","c","t","u","r">>}, TRUE)),
          \* \brefactor\b
          Found(WordOf(s, Start(s), {<<"r","e","f","a","c","t","o","r">>}, TRUE)) >>
    [] flag = "cross-service" ->
       << \* \bcross[- ]?repo\b
          Found(Bnd(s, Lit(s, OptIn(s, WordStart(s, Start(s), {<<"c","r","o","s","s">>}, TRUE),
                                    {"-", " "}), <<"r","e","p","o">>, TRUE))),
          \* \bmulti[- ]?service\b
          Found(Bnd(s, Lit(s, OptIn(s, WordStart(s, Start(s), {<<"m","u","l","t","i">>}, TRUE),
                                    {"-", " "}), <<"s","e","r","v","i","c","e">>, TRUE))),
          \* \bauth[- ]?service\b.*\bsite\b
          Found(WordOf(s, AnyStar(s,
                  Bnd(s, Lit(s, OptIn(s, WordStart(s, Start(s), {<<"a","u","t","h">>}, TRUE),
                                      {"-", " "}), <<"s","e","r","v","i","c","e">>, TRUE))),
                  {<<"s","i","t","e">>}, TRUE)) >>
    [] flag = "rsc-serialization" ->
       << \* \bserver.?component
          Found(Lit(s, OptAny(s, WordStart(s, Start(s), {<<"s","e","r","v","e","r">>}, TRUE)),
                    <<"c","o","m","p","o","n","e","n","t">>, TRUE)),
          \* \bRSC\b   (compiled without re.I)
          Found(WordOf(s, Start(s), {<<"R","S","C">>}, FALSE)),
          \* \bserialization\b
          Found(WordOf(s, Start(s), {<<"s","e","r","i","a","l","i","z","a","t","i","o","n">>}, TRUE)) >>
    [] flag = "test-infrastructure" ->
       << \* \bfix.*test
          Found(Lit(s, AnyStar(s, WordStart(s, Start(s), {<<"f","i","x">>}, TRUE)),
                    <<"t","e","s","t">>, TRUE)),
          \* \bpytest\b
          Found(WordOf(s, Start(s), {<<"p","y","t","e","s","t">>}, TRUE)),
          \* \bCI\b.*\b(fix|broken|fail)
          Found(WordStart(s, AnyStar(s, WordOf(s, Start(s), {<<"c","i">>}, TRUE)),
                          {<<"f","i","x">>, <<"b","r","o","k","e","n">>, <<"f","a","i","l">>}, TRUE)) >>

\* thresholds under which one matching pattern is enough for every flag
THRESHOLDS_any_match ==
  [flag \in {FLAG_NAMES[i] : i \in DOMAIN FLAG_NAMES} |-> 1]

\* thresholds without the per-flag exceptions: THRESHOLDS.get's default, 2
THRESHOLDS_uniform ==
  [flag \in {FLAG_NAMES[i] : i \in DOMAIN FLAG_NAMES} |-> 2]

THRESHOLDS ==
  [flag \in {FLAG_NAMES[i] : i \in DOMAIN FLAG_NAMES} |->
     CASE flag = "modifies-existing-runtime" -> 3
       [] flag = "schema-migration" -> 2
       [] flag = "large-scope-refactor" -> 2
       [] flag = "cross-service" -> 2
       [] flag = "rsc-serialization" -> 1
       [] flag = "test-infrastructure" -> 2]

\* sum(1 for p in patterns if p.search(prompt))
CountTrue(bs) == Cardinality({k \in DOMAIN bs : bs[k]})

RiskFires(flag, prompt) ==
  CountTrue(RISK_PATTERNS(flag, prompt)) >= THRESHOLDS[flag]

\* the flags in the order of RISK_PATTERNS
detect_risk_flags(prompt) ==
  SelectSeq(FLAG_NAMES, LAMBDA flag : RiskFires(flag, prompt))

\* ---------------------------------------------------- task type classification

TASK_TYPES ==
  << "bugfix", "refactor", "test", "documentation", "infrastructure", "feature" >>

\* TASK_TYPE_PATTERNS[i] searched in s: one boolean per compiled pattern
TASK_TYPE_PATTERNS(i, s) ==
  CASE i = 1 -> << Found(WordOf(s, Start(s), {<<"f","i","x">>}, TRUE)),
                   Found(WordOf(s, Start(s), {<<"b","u","g">>}, TRUE)),
                   Found(WordOf(s, Start(s), {<<"b","r","o","k","e","n">>}, TRUE)),
                   Found(WordOf(s, Start(s), {<<"e","r","r","o","r">>}, TRUE)) >>
    [] i = 2 -> << Found(WordOf(s, Start(s), {<<"r","e","f","a","c","t","o","r">>}, TRUE)),
                   \* \brestructur
                   Found(WordStart(s, Start(s), {<<"r","e","s","t","r","u","c","t","u","r">>}, TRUE)),
                   \* \bclean\s*up\b
                   Found(Bnd(s, Lit(s, SpaceStar(s,
                           WordStart(s, Start(s), {<<"c","l","e","a","n">>}, TRUE)), <<"u","p">>, TRUE))) >>
    [] i = 3 -> << \* \btests?\b
                   Found(Bnd(s, OptIn(s, WordStart(s, Start(s), {<<"t","e","s","t">>}, TRUE),
                                      {"s", "S"}))),
                   Found(WordOf(s, Start(s), {<<"s","p","e","c">>}, TRUE)),
                   Found(WordOf(s, Start(s), {<<"c","o","v","e","r","a","g","e">>}, TRUE)) >>
    [] i = 4 -> << \* \bdocument
                   Found(WordStart(s, Start(s), {<<"d","o","c","u","m","e","n","t">>}, TRUE)),
                   Found(WordOf(s, Start(s), {<<"r","e","a","d","m","e">>}, TRUE)) >>
    [] i = 5 -> << \* \bdeploy, \bdocker
                   Found(WordStart(s, Start(s), {<<"d","e","p","l","o","y">>}, TRUE)),
                   Found(WordStart(s, Start(s), {<<"d","o","c","k","e","r">>}, TRUE)),
                   Found(WordOf(s, Start(s), {<<"m","i","g","r","a","t","i","o","n">>}, TRUE)) >>
    [] i = 6 -> << Found(WordOf(s, Start(s), {<<"a","d","d">>}, TRUE)),
                   \* \bimplement
                   Found(WordStart(s, Start(s), {<<"i","m","p","l","e","m","e","n","t">>}, TRUE)),
                   Found(WordOf(s, Start(s), {<<"c","r","e","a","t","e">>}, TRUE)),
                   Found(WordOf(s, Start(s), {<<"n","e","w">>}, TRUE)) >>

\* classify_task_type that lets a later matching task type override an earlier
classify_task_type_last(prompt) ==
  LET hit == {i \in DOMAIN TASK_TYPES : CountTrue(TASK_TYPE_PATTERNS(i, prompt)) > 0}
  IN  IF hit = {} THEN "unknown"
      ELSE TASK_TYPES[CHOOSE i \in hit : \A j \in hit : i >= j]

\* the first task type, in list order, one of whose patterns is found
classify_task_type(prompt) ==
  LET hit == {i \in DOMAIN TASK_TYPES : CountTrue(TASK_TYPE_PATTERNS(i, prompt)) > 0}
  IN  IF hit = {} THEN "unknown"
      ELSE TASK_TYPES[CHOOSE i \in hit : \A j \in hit : i <= j]

\* --------------------------------------------------------- greenfield detection

GREENFIELD_PATTERNS(s) ==
  << \* \bnew\s+(page|component|endpoint|service)\b
     Found(Bnd(s, Alt(s, SpacePlus(s, WordStart(s, Start(s), {<<"n","e","w">>}, TRUE)),
                      {<<"p","a","g","e">>, <<"c","o","m","p","o","n","e","n","t">>, <<"e","n","d","p","o","i","n","t">>, <<"s","e","r","v","i","c","e">>}, TRUE))),
     \* \bcreate\s+(a|the|new)\b
     Found(Bnd(s, Alt(s, SpacePlus(s, WordStart(s, Start(s), {<<"c","r","e","a","t","e">>}, TRUE)),
                      {<<"a">>, <<"t","h","e">>, <<"n","e","w">>}, TRUE))),
     \* \badd\s+(a|the|new)\b
     Found(Bnd(s, Alt(s, SpacePlus(s, WordStart(s, Start(s), {<<"a","d","d">>}, TRUE)),
                      {<<"a">>, <<"t","h","e">>, <<"n","e","w">>}, TRUE))),
     \* \bbuild\s+(a|the|new)\b
     Found(Bnd(s, Alt(s, SpacePlus(s, WordStart(s, Start(s), {<<"b","u","i","l","d">>}, TRUE)),
                      {<<"a">>, <<"t","h","e">>, <<"n","e","w">>}, TRUE))) >>

MODIFICATION_PATTERNS(s) ==
  << Found(WordOf(s, Start(s), {<<"f","i","x">>}, TRUE)),
     Found(WordOf(s, Start(s), {<<"u","p","d","a","t","e">>}, TRUE)),
     Found(WordOf(s, Start(s), {<<"m","o","d","i","f","y">>}, TRUE)),
     Found(WordOf(s, Start(s), {<<"r","e","f","a","c","t","o","r">>}, TRUE)),
     Found(WordOf(s, Start(s), {<<"c","h","a","n","g","e">>}, TRUE)),
     Found(WordOf(s, Start(s), {<<"r","e","m","o","v","e">>}, TRUE)),
     Found(WordOf(s, Start(s), {<<"e","x","i","s","t","i","n","g">>}, TRUE)) >>

is_greenfield(prompt) ==
  LET greenfield_score == CountTrue(GREENFIELD_PATTERNS(prompt))
      modification_score == CountTrue(MODIFICATION_PATTERNS(prompt))
  IN  greenfield_score > modification_score

\* ------------------------------------------------------------------ the texts

\* longest generated text, in words
MaxWords == 2

Vocab ==
  { <<"f","i","x">>, <<"e","x","i","s","t","i","n","g">>, <<"q","u","e","r","y">>, <<"p","r","i","s","m","a">>, <<"m","i","g","r","a","t","i","o","n">>, <<"r","e","f","a","c","t","o","r">>,
    <<"t","e","s","t","s">>, <<"a","d","d">>, <<"a">>, <<"n","e","w">>, <<"p","a","g","e">> }

RECURSIVE Join(_)
Join(ws) ==
  IF ws = << >> THEN << >>
  ELSE IF Len(ws) = 1 THEN ws[1]
  ELSE ws[1] \o << " " >> \o Join(Tail(ws))

GeneratedPrompts == {Join(ws) : ws \in UNION {[1..k -> Vocab] : k \in 0..MaxWords}}

ScenarioPrompts ==
  { <<>>,
    <<"f","i","x"," ","t","h","e"," ","b","r","o","k","e","n"," ","q","u","e","r","y"," ","i","n"," ","t","h","e"," ","p","r","i","s","m","a"," ","s","c","h","e","m","a">>,
    <<"a","d","d"," ","a"," ","n","e","w"," ","d","a","s","h","b","o","a","r","d"," ","p","a","g","e">>,
    <<"f","i","x"," ","t","h","e"," ","e","x","i","s","t","i","n","g"," ","q","u","e","r","y"," ","i","n"," ","p","r","i","s","m","a">>,
    <<"F","i","x"," ","T","h","e"," ","E","x","i","s","t","i","n","g"," ","Q","u","e","r","y"," ","I","n"," ","S","Q","L">>,
    <<"p","a","t","c","h"," ","t","h","e"," ","l","e","g","a","c","y"," ","q","u","e","r","y","\n","p","r","i","s","m","a">>,
    <<"u","p","d","a","t","e"," ","t","h","e"," ","p","r","i","s","m","a"," ","m","i","g","r","a","t","i","o","n">>,
    <<"b","a","c","k","w","a","r","d"," ","c","o","m","p","a","t","i","b","l","e"," ","p","r","i","s","m","a"," ","s","c","h","e","m","a"," ","c","h","a","n","g","e">>,
    <<"s","c","h","e","m","a"," ","u","p","d","a","t","e">>,
    <<"r","e","f","a","c","t","o","r"," ","a","n","d"," ","r","e","s","t","r","u","c","t","u","r","e"," ","t","h","e"," ","m","o","d","u","l","e","s">>,
    <<"m","o","d","u","l","a","r","i","z","e"," ","t","h","e"," ","p","a","r","s","e","r">>,
    <<"c","r","o","s","s","-","r","e","p","o"," ","m","u","l","t","i"," ","s","e","r","v","i","c","e"," ","r","o","l","l","o","u","t">>,
    <<"a","u","t","h","-","s","e","r","v","i","c","e"," ","l","o","g","i","n"," ","f","o","r"," ","t","h","e"," ","s","i","t","e">>,
    <<"r","e","n","d","e","r"," ","a"," ","s","e","r","v","e","r"," ","c","o","m","p","o","n","e","n","t">>,
    <<"R","S","C"," ","p","a","y","l","o","a","d">>,
    <<"r","s","c"," ","p","a","y","l","o","a","d">>,
    <<"f","i","x"," ","t","h","e"," ","f","a","i","l","i","n","g"," ","p","y","t","e","s","t"," ","t","e","s","t","s">>,
    <<"f","i","x","e","s"," ","f","o","r"," ","t","e","s","t","i","n","g">>,
    <<"C","I"," ","i","s"," ","b","r","o","k","e","n">>,
    <<"c","l","e","a","n"," ","u","p"," ","t","h","e"," ","r","e","a","d","m","e">>,
    <<"w","r","i","t","e"," ","t","e","s","t","s"," ","f","o","r"," ","s","p","e","c"," ","c","o","v","e","r","a","g","e">>,
    <<"d","o","c","u","m","e","n","t"," ","t","h","e"," ","a","p","i">>,
    <<"d","e","p","l","o","y"," ","w","i","t","h"," ","d","o","c","k","e","r">>,
    <<"i","m","p","l","e","m","e","n","t"," ","n","e","w"," ","e","n","d","p","o","i","n","t">>,
    <<"c","r","e","a","t","e"," ","a"," ","n","e","w"," ","s","e","r","v","i","c","e">>,
    <<"a","d","d"," ","a"," ","b","u","t","t","o","n"," ","a","n","d"," ","f","i","x"," ","t","h","e"," ","l","a","y","o","u","t">>,
    <<"b","u","i","l","d"," ","t","h","e"," ","n","e","w"," ","p","a","g","e"," ","a","n","d"," ","u","p","d","a","t","e"," ","e","x","i","s","t","i","n","g"," ","c","o","d","e">>,
    <<"a","d","d"," ","a"," ","n","e","w"," ","p","a","g","e",","," ","u","p","d","a","t","e"," ","s","t","y","l","e","s">>,
    <<"p","r","e","f","i","x"," ","t","h","e"," ","l","a","t","e","s","t"," ","d","e","b","u","g">>,
    <<"r","e","n","a","m","e"," ","v","a","r","i","a","b","l","e","s">> }

Prompts == ScenarioPrompts \cup GeneratedPrompts

\* ------------------------------------------------------------- Python values
\* A value read from a record is a string, a number or None; a key the record
\* lacks is Absent.  A call returns Ret(value) or raises.

Str(t) == [k |-> "str", v |-> t]
Num(n) == [k |-> "num", v |-> n]
None == [k |-> "null"]
Absent == [k |-> "absent"]

IsStr(x) == x.k = "str"
IsNum(x) == x.k = "num"

Ret(x) == [raised |-> "none", val |-> x]
Raise(e) == [raised |-> e]
Raises(r) == r.raised # "none"

\* record[key]: no default for a key the record lacks
Get_no_default(record, key, default) == record[key]

\* record.get(key, default)
Get(record, key, default) ==
  IF record[key] = Absent THEN default ELSE record[key]

\* `a == n` for a number n: false, never an error, when a is no number
EqNum(a, n) == IsNum(a) /\ a.v = n

\* ------------------------------------------------------------ label derivation

\* The pattern matchers are pure, so each is evaluated once per text of Prompts
\* and looked up afterwards; a text outside Prompts is evaluated in place.
RiskFlagsTable == [p \in Prompts |-> detect_risk_flags(p)]
TaskTypeTable == [p \in Prompts |-> classify_task_type(p)]
GreenfieldTable == [p \in Prompts |-> is_greenfield(p)]

DetectRiskFlags(p) ==
  IF p \in Prompts THEN RiskFlagsTable[p] ELSE detect_risk_flags(p)
ClassifyTaskType(p) ==
  IF p \in Prompts THEN TaskTypeTable[p] ELSE classify_task_type(p)
IsGreenfield(p) ==
  IF p \in Prompts THEN GreenfieldTable[p] ELSE is_greenfield(p)

CLAUDE_OPUS == <<"c","l","a","u","d","e","-","o","p","u","s","-","4","-","6">>
CLAUDE_SONNET == <<"c","l","a","u","d","e","-","s","o","n","n","e","t","-","4","-","5","-","2","0","2","5","0","9","2","9">>
CLAUDE_HAIKU == <<"c","l","a","u","d","e","-","h","a","i","k","u","-","4","-","5","-","2","0","2","5","1","0","0","1">>
GPT_CODEX == <<"g","p","t","-","5",".","3","-","c","o","d","e","x">>

AGENT_MAP ==
  [m \in {CLAUDE_OPUS, CLAUDE_SONNET, CLAUDE_HAIKU, GPT_CODEX} |->
     IF m = GPT_CODEX THEN "codex" ELSE "claude"]

DEFAULT_MODEL == CLAUDE_SONNET

\* str.startswith
StartsWith(s, w) == AtLit(s, 1, w, FALSE)

\* re.match(r"^o\d", s)
MatchesODigit(s) == Found(OneIn(s, Lit(s, {1}, <<"o">>, FALSE), Digits))

\* resolve_agent that sends every unrecognized id to codex
resolve_agent_default_codex(model_id) ==
  IF IsStr(model_id) /\ model_id.v \in DOMAIN AGENT_MAP
    THEN Ret(AGENT_MAP[model_id.v])
  ELSE IF ~IsStr(model_id) THEN Raise("AttributeError")
  ELSE IF StartsWith(model_id.v, <<"c","l","a","u","d","e","-">>) THEN Ret("claude")
  ELSE Ret("codex")

resolve_agent(model_id) ==
  IF IsStr(model_id) /\ model_id.v \in DOMAIN AGENT_MAP
    THEN Ret(AGENT_MAP[model_id.v])
  ELSE IF ~IsStr(model_id) THEN Raise("AttributeError")
  ELSE IF StartsWith(model_id.v, <<"c","l","a","u","d","e","-">>) THEN Ret("claude")
  ELSE IF StartsWith(model_id.v, <<"g","p","t","-">>) \/ MatchesODigit(model_id.v)
    THEN Ret("codex")
  ELSE Ret("claude")

\* derive_cost_band with the lower breakpoint taken as `cost <= 10`
derive_cost_band_le(cost) ==
  IF cost = None THEN Ret("medium")
  ELSE IF ~IsNum(cost) THEN Raise("TypeError")
  ELSE IF cost.v <= 10 THEN Ret("low")
  ELSE IF cost.v <= 25 THEN Ret("medium")
  ELSE Ret("high")

derive_cost_band(cost) ==
  IF cost = None THEN Ret("medium")
  ELSE IF ~IsNum(cost) THEN Raise("TypeError")
  ELSE IF cost.v < 10 THEN Ret("low")
  ELSE IF cost.v <= 25 THEN Ret("medium")
  ELSE Ret("high")

\* score is a number of hundredths
derive_confidence(score, intervention_count) ==
  IF ~IsNum(score) THEN Raise("TypeError")
  ELSE IF score.v >= 95 /\ EqNum(intervention_count, 0) THEN Ret("high")
  ELSE IF score.v >= 80 THEN Ret("medium")
  ELSE Ret("low")

\* SelectModel whose first branch keeps the model that was used
SelectModel_keep_cheap(model_id, score, intervention_count, greenfield) ==
  IF model_id = Str(GPT_CODEX) /\ ~IsNum(score) THEN Raise("TypeError")
  ELSE IF model_id = Str(GPT_CODEX) /\ score.v < 85 THEN Ret(model_id)
  ELSE IF greenfield /\ ~IsNum(score) THEN Raise("TypeError")
  ELSE IF greenfield /\ score.v >= 90 /\ EqNum(intervention_count, 0)
    THEN Ret(Str(GPT_CODEX))
  ELSE IF ~IsNum(score) THEN Raise("TypeError")
  ELSE IF score.v >= 85 /\ ~IsNum(intervention_count) THEN Raise("TypeError")
  ELSE IF score.v >= 85 /\ intervention_count.v <= 1 THEN Ret(model_id)
  ELSE Ret(Str(DEFAULT_MODEL))

\* SelectModel in the order of the docstring: "the model used was correct"
\* is tried before the greenfield branch
SelectModel_docstring_order(model_id, score, intervention_count, greenfield) ==
  IF model_id = Str(GPT_CODEX) /\ ~IsNum(score) THEN Raise("TypeError")
  ELSE IF model_id = Str(GPT_CODEX) /\ score.v < 85 THEN Ret(Str(DEFAULT_MODEL))
  ELSE IF ~IsNum(score) THEN Raise("TypeError")
  ELSE IF score.v >= 85 /\ ~IsNum(intervention_count) THEN Raise("TypeError")
  ELSE IF score.v >= 85 /\ intervention_count.v <= 1 THEN Ret(model_id)
  ELSE IF greenfield /\ score.v >= 90 /\ EqNum(intervention_count, 0)
    THEN Ret(Str(GPT_CODEX))
  ELSE Ret(Str(DEFAULT_MODEL))

\* SelectModel that keeps the model used up to two interventions
SelectModel_two_interventions(model_id, score, intervention_count, greenfield) ==
  IF model_id = Str(GPT_CODEX) /\ ~IsNum(score) THEN Raise("TypeError")
  ELSE IF model_id = Str(GPT_CODEX) /\ score.v < 85 THEN Ret(Str(DEFAULT_MODEL))
  ELSE IF greenfield /\ ~IsNum(score) THEN Raise("TypeError")
  ELSE IF greenfield /\ score.v >= 90 /\ EqNum(intervention_count, 0)
    THEN Ret(Str(GPT_CODEX))
  ELSE IF ~IsNum(score) THEN Raise("TypeError")
  ELSE IF score.v >= 85 /\ ~IsNum(intervention_count) THEN Raise("TypeError")
  ELSE IF score.v >= 85 /\ intervention_count.v <= 2 THEN Ret(model_id)
  ELSE Ret(Str(DEFAULT_MODEL))

\* SelectModel whose greenfield branch does not look at the interventions
SelectModel_any_interventions(model_id, score, intervention_count, greenfield) ==
  IF model_id = Str(GPT_CODEX) /\ ~IsNum(score) THEN Raise("TypeError")
  ELSE IF model_id = Str(GPT_CODEX) /\ score.v < 85 THEN Ret(Str(DEFAULT_MODEL))
  ELSE IF greenfield /\ ~IsNum(score) THEN Raise("TypeError")
  ELSE IF greenfield /\ score.v >= 90 THEN Ret(Str(GPT_CODEX))
  ELSE IF ~IsNum(score) THEN Raise("TypeError")
  ELSE IF score.v >= 85 /\ ~IsNum(intervention_count) THEN Raise("TypeError")
  ELSE IF score.v >= 85 /\ intervention_count.v <= 1 THEN Ret(model_id)
  ELSE Ret(Str(DEFAULT_MODEL))

\* the if/elif chain of derive_optimal_routing; an ordering comparison of a
\* value that is no number raises TypeError when it is reached
SelectModel(model_id, score, intervention_count, greenfield) ==
  IF model_id = Str(GPT_CODEX) /\ ~IsNum(score) THEN Raise("TypeError")
  ELSE IF model_id = Str(GPT_CODEX) /\ score.v < 85 THEN Ret(Str(DEFAULT_MODEL))
  ELSE IF greenfield /\ ~IsNum(score) THEN Raise("TypeError")
  ELSE IF greenfield /\ score.v >= 90 /\ EqNum(intervention_count, 0)
    THEN Ret(Str(GPT_CODEX))
  ELSE IF ~IsNum(score) THEN Raise("TypeError")
  ELSE IF score.v >= 85 /\ ~IsNum(intervention_count) THEN Raise("TypeError")
  ELSE IF score.v >= 85 /\ intervention_count.v <= 1 THEN Ret(model_id)
  ELSE Ret(Str(DEFAULT_MODEL))

\* the sentence is kept as its template and the values put into it
build_reasoning(model, risk_flags, greenfield, score) ==
  LET agent == resolve_agent(model).val
  IN  IF greenfield /\ model = Str(GPT_CODEX)
        THEN [template |-> "Greenfield task suitable for Codex at lower cost."]
      ELSE IF risk_flags # << >>
        THEN [template |-> "Risk flags [{flags}] suggest using {agent}.",
              flags |-> risk_flags, agent |-> agent]
      ELSE IF score.v >= 95
        THEN [template |->
                "High-confidence routing to {agent} based on historical success.",
              agent |-> agent]
      ELSE [template |-> "Default routing to {agent}.", agent |-> agent]

derive_optimal_routing(record) ==
  LET prompt == Get(record, "originalPrompt", Str(<< >>))
      model_id == Get(record, "modelId", Str(DEFAULT_MODEL))
      score == Get(record, "score", Num(0))
      intervention_count == Get(record, "interventionCount", Num(0))
      workflow_cost == Get(record, "workflowCost", None)
  IN  \* is_greenfield: pattern.search of a value that is no string
      IF ~IsStr(prompt) THEN Raise("TypeError")
      ELSE
      LET greenfield == IsGreenfield(prompt.v)
          recommended_model ==
            SelectModel(model_id, score, intervention_count, greenfield)
          risk_flags == DetectRiskFlags(prompt.v)
          cost_band == derive_cost_band(workflow_cost)
          confidence == derive_confidence(score, intervention_count)
      IN  IF Raises(recommended_model) THEN recommended_model
          ELSE IF Raises(cost_band) THEN cost_band
          ELSE IF Raises(confidence) THEN confidence
          ELSE IF Raises(resolve_agent(recommended_model.val))
            THEN resolve_agent(recommended_model.val)
          ELSE Ret([recommended_model |-> recommended_model.val,
                    recommended_agent |-> resolve_agent(recommended_model.val).val,
                    confidence |-> confidence.val,
                    risk_flags |-> risk_flags,
                    cost_estimate |-> cost_band.val,
                    reasoning |-> build_reasoning(recommended_model.val,
                                     risk_flags, greenfield, score)])

\* ------------------------------------------------------------------ the inputs

\* largest interventionCount of a record
MaxInterventions == 2

ModelIds ==
  { CLAUDE_SONNET, CLAUDE_OPUS, GPT_CODEX, <<"c","l","a","u","d","e","-","3","-","o","p","u","s">>, <<"g","p","t","-","4","o">>,
    <<"o","1","-","m","i","n","i">>, <<"r","1">>, <<"o","l","i","v","e">>, <<"g","e","m","i","n","i","-","p","r","o">> }

\* hundredths
Scores == {60, 80, 84, 85, 89, 90, 95}

Costs == {7, 9, 10, 25, 26, 30}

OrAbsent(S) == {Absent} \cup S

\* historical records: every field a value of its kind or missing
Records ==
  [originalPrompt : OrAbsent({Str(p) : p \in ScenarioPrompts}),
   sourceRepo : {Absent},
   modelId : OrAbsent({Str(m) : m \in ModelIds}),
   score : OrAbsent({Num(n) : n \in Scores}),
   interventionCount : OrAbsent({Num(n) : n \in 0..MaxInterventions}),
   workflowCost : OrAbsent({None} \cup {Num(n) : n \in Costs})]

\* a call is a function of prepare_data.py and its argument
Calls ==
  {[fn |-> "derive_optimal_routing", arg |-> r] : r \in Records}
    \cup {[fn |-> "detect_risk_flags", arg |-> p] : p \in Prompts}
    \cup {[fn |-> "classify_task_type", arg |-> p] : p \in Prompts}
    \cup {[fn |-> "derive_cost_band", arg |-> c] : c \in {None} \cup {Num(n) : n \in Costs}}

Pending == [raised |-> "pending"]

\* ------------------------------------------------------------------- data loading

AVAILABLE_MODELS == <<"c","l","a","u","d","e","-","s","o","n","n","e","t","-","4","-","5","-","2","0","2","5","0","9","2","9",",","g","p","t","-","5",".","3","-","c","o","d","e","x">>

\* A line of the evals file is kept as what json.loads makes of it: Blank is
\* a line of white space only, Malformed a text json.loads rejects, and
\* Json(x) the text of the JSON value x.  Dict(r) is a JSON object with the
\* fields of r.
Blank == [kind |-> "blank"]
Malformed == [kind |-> "malformed"]
Json(x) == [kind |-> "json", value |-> x]
Dict(r) == [k |-> "dict", v |-> r]
IsDict(x) == x.k = "dict"

json_loads(line) ==
  IF line.kind = "malformed" THEN Raise("JSONDecodeError") ELSE Ret(line.value)

\* evals_path.read_text().strip().split("\n"): the blank lines at both ends go,
\* and an empty text still splits into one empty line
StripSplit(ls) ==
  LET kept == {n \in DOMAIN ls : ls[n] # Blank}
      first == CHOOSE n \in kept : \A m \in kept : n <= m
      last == CHOOSE n \in kept : \A m \in kept : n >= m
  IN  IF kept = {} THEN << Blank >> ELSE SubSeq(ls, first, last)

\* `not x`
Falsy(x) ==
  \/ x = None
  \/ IsStr(x) /\ x.v = << >>
  \/ IsNum(x) /\ x.v = 0
  \/ x.k = "list" /\ x.v = << >>

SliceTo_inclusive(s, n) ==
  SubSeq(s, 1, IF n + 1 < Len(s) THEN n + 1 ELSE Len(s))

\* s[:n]
SliceTo(s, n) ==
  IF n >= 0 THEN SubSeq(s, 1, IF n < Len(s) THEN n ELSE Len(s))
  ELSE SubSeq(s, 1, IF Len(s) + n > 0 THEN Len(s) + n ELSE 0)

Skip == [raised |-> "continue"]

\* dspy.Example(...) of a record whose labels were derived
Example(prompt, repo_name, task_type, labels, max_prompt_length) ==
  [task_prompt |-> SliceTo(prompt, max_prompt_length),
   repo_name |-> repo_name,
   task_type_hint |-> task_type,
   available_models |-> AVAILABLE_MODELS,
   recommended_model |-> labels.recommended_model,
   recommended_agent |-> labels.recommended_agent,
   confidence |-> labels.confidence,
   risk_flags |-> labels.risk_flags,
   cost_estimate |-> labels.cost_estimate,
   reasoning |-> labels.reasoning]

\* the loop body from `labels = derive_optimal_routing(record)` on
LabelledExample(prompt, repo_name, task_type, labels, max_prompt_length) ==
  IF Raises(labels) THEN labels
  ELSE Ret(Example(prompt, repo_name, task_type, labels.val, max_prompt_length))

\* the loop body from `prompt = record.get("originalPrompt", "")` on
LoadRecord(record, prompt, max_prompt_length) ==
  IF Falsy(prompt) THEN Skip
  \* classify_task_type: pattern.search of a value that is no string
  ELSE IF ~IsStr(prompt) THEN Raise("TypeError")
  ELSE LabelledExample(prompt.v, Get(record, "sourceRepo", Str(<<"u","n","k","n","o","w","n">>)),
                       ClassifyTaskType(prompt.v),
                       derive_optimal_routing(record), max_prompt_length)

\* the loop body from `record = json.loads(line)` on
LoadParsed(parsed, max_prompt_length) ==
  IF Raises(parsed) THEN Skip
  \* record.get of a value that is no dict
  ELSE IF ~IsDict(parsed.val) THEN Raise("AttributeError")
  ELSE LoadRecord(parsed.val.v, Get(parsed.val.v, "originalPrompt", Str(<< >>)),
                  max_prompt_length)

\* the body of the loop of load_training_data for one line: Skip for a
\* `continue`, Ret(example) for an append, Raise(e) for an exception that
\* leaves the loop
load_line(line, max_prompt_length) ==
  IF line = Blank THEN Skip
  ELSE LoadParsed(json_loads(line), max_prompt_length)

\* most lines of an evals file
MaxLines == 2

Rec(prompt, repo, model, score, interventions, cost) ==
  [originalPrompt |-> prompt, sourceRepo |-> repo, modelId |-> model,
   score |-> score, interventionCount |-> interventions, workflowCost |-> cost]

LoadRecords ==
  { Rec(Str(<<"a","d","d"," ","a"," ","n","e","w"," ","d","a","s","h","b","o","a","r","d"," ","p","a","g","e">>), Str(<<"w","a","v","e","m","i","l","l">>), Str(CLAUDE_SONNET),
        Num(95), Num(0), Num(7)),
    Rec(Str(<<"f","i","x"," ","t","h","e"," ","b","r","o","k","e","n"," ","q","u","e","r","y"," ","i","n"," ","t","h","e"," ","p","r","i","s","m","a"," ","s","c","h","e","m","a">>), Absent,
        Str(GPT_CODEX), Num(60), Num(2), Absent),
    Rec(Str(<<"R","S","C"," ","p","a","y","l","o","a","d">>), Str(<<"h","o","k","u","s","a","i","-","s","i","t","e">>), Absent, Absent, Absent, Num(30)),
    Rec(Str(<<"d","o","c","u","m","e","n","t"," ","t","h","e"," ","a","p","i">>), Absent, Str(CLAUDE_OPUS), Num(95), Num(0),
        Num(26)),
    \* no usable prompt
    Rec(Absent, Str(<<"w","a","v","e","m","i","l","l">>), Str(CLAUDE_SONNET), Num(95), Num(0), Num(7)),
    Rec(Str(<<>>), Absent, Str(GPT_CODEX), Num(90), Num(1), None),
    Rec(None, Absent, Absent, Num(85), Absent, Absent),
    \* a field of the wrong kind
    Rec(Num(5), Absent, Str(CLAUDE_SONNET), Num(95), Num(0), Num(7)),
    Rec(Str(<<"d","o","c","u","m","e","n","t"," ","t","h","e"," ","a","p","i">>), Absent, Str(CLAUDE_SONNET), Str(<<"h","i","g","h">>),
        Num(0), Num(7)),
    Rec(Str(<<"d","o","c","u","m","e","n","t"," ","t","h","e"," ","a","p","i">>), Absent, Str(CLAUDE_SONNET), Num(95), Num(0),
        Str(<<"c","h","e","a","p">>)),
    Rec(Str(<<"d","e","p","l","o","y"," ","w","i","t","h"," ","d","o","c","k","e","r">>), Absent, Num(4), Num(95), Num(1), Absent) }

LoadLines ==
  {Blank, Malformed, Json(Num(5)), Json(None)}
    \cup {Json(Dict(r)) : r \in LoadRecords}

\* an evals path: no file there, or a file with its lines of text
NoFile == [exists |-> FALSE]
File(ls) == [exists |-> TRUE, text |-> ls]

Files == {File(ls) : ls \in UNION {[1..n -> LoadLines] : n \in 0..MaxLines}}

MaxPromptLengths == {-2, 0, 5, 2000}

LoadCalls ==
  {[fn |-> "load_training_data",
    arg |-> [evals_path |-> f, max_prompt_length |-> n]] :
     f \in {NoFile} \cup Files, n \in MaxPromptLengths}

\* ------------------------------------------------------------------ the metric

\* a Python list, and a string that is one of a few words (a cost band, an
\* agent), kept as that word
List(l) == [k |-> "list", v |-> l]
Word(w) == [k |-> "str", v |-> w]

\* set(l)
SetOf(l) == {l[n] : n \in DOMAIN l}

\* obj.name, of an object that may lack the attribute
Attr(obj, name) ==
  IF obj[name] = Absent THEN Raise("AttributeError") ELSE Ret(obj[name])

\* set(x) if x else set()
FlagSet(x) == IF Falsy(x) THEN {} ELSE SetOf(x.v)

\* the risk term of routing_metric with its weight 0.3, in six-hundredths
RiskRecall(pred_flags, true_flags) ==
  IF Cardinality(true_flags) > 0
    THEN (180 * Cardinality(pred_flags \cap true_flags)) \div Cardinality(true_flags)
  ELSE IF Cardinality(pred_flags) = 0 THEN 180 ELSE 90

\* 0.5 * model_correct + 0.3 * risk_recall + 0.2 * cost_correct, in
\* six-hundredths
MetricSum(example, model, flags, cost) ==
  (IF model = example.recommended_model THEN 300 ELSE 0)
    + RiskRecall(FlagSet(flags), SetOf(example.risk_flags))
    + (IF IsStr(cost) /\ cost.v = example.cost_estimate THEN 120 ELSE 0)

\* routing_metric: the attributes of the prediction are read in the order
\* recommended_model, risk_flags, cost_estimate
routing_metric(example, prediction) ==
  IF Raises(Attr(prediction, "recommended_model"))
    THEN Attr(prediction, "recommended_model")
  ELSE IF Raises(Attr(prediction, "risk_flags"))
    THEN Attr(prediction, "risk_flags")
  ELSE IF Raises(Attr(prediction, "cost_estimate"))
    THEN Attr(prediction, "cost_estimate")
  ELSE Ret(MetricSum(example, prediction.recommended_model,
                     prediction.risk_flags, prediction.cost_estimate))

\* lists of risk flags, in the label and in a prediction
TrueFlagLists ==
  { << >>, << "schema-migration" >>, << "schema-migration", "cross-service" >>,
    << "modifies-existing-runtime", "schema-migration", "test-infrastructure" >> }

PredFlagLists ==
  TrueFlagLists
    \cup { << "cross-service" >>, << "cross-service", "schema-migration" >>,
           << "schema-migration", "schema-migration" >>,
           << "schema-migration", "rsc-serialization", "cross-service" >> }

LabelModels == {CLAUDE_SONNET, GPT_CODEX, CLAUDE_OPUS}

\* the label fields of an example
Labels ==
  [recommended_model : {Str(m) : m \in LabelModels},
   risk_flags : TrueFlagLists,
   cost_estimate : {"low", "medium", "high"}]

\* predictions: every field a value, None, or missing from the object
Predictions ==
  [recommended_model : {Absent, None} \cup {Str(m) : m \in LabelModels},
   risk_flags : {Absent, None} \cup {List(l) : l \in PredFlagLists},
   cost_estimate : {Absent, None} \cup {Word(b) : b \in {"low", "medium", "high"}}]

MetricCalls ==
  {[fn |-> "routing_metric", arg |-> [example |-> e, prediction |-> p]] :
     e \in Labels, p \in Predictions}

VARIABLES
  call,      \* the call being made: a function and its argument
  ret,       \* Pending, then what the call returned or raised
  pc,        \* where the call is
  lines,     \* load_training_data: the lines of the file
  i,         \* the lines, or the examples, the loop has taken so far
  examples,  \* load_training_data: the examples appended so far
  correct_model,         \* the locals of evaluate_predictions; the two
  correct_cost,          \* totals are counted in sixtieths
  total_risk_recall,
  total_risk_precision,
  risk_examples,
  out,       \* what was printed
  train,     \* main: the two slices of the examples
  val,
  baseline_score,        \* optimize.main
  optimized_score,
  heuristic_results,     \* evaluate.main
  optimized_results,
  selector,  \* the dspy module: "none", "built", then "optimized"
  artifact_file          \* optimize.main: the file at args.output

loadVars == << pc, lines, i, examples >>

evalVars ==
  << correct_model, correct_cost, total_risk_recall, total_risk_precision,
     risk_examples, out >>

mainVars ==
  << train, val, baseline_score, optimized_score, heuristic_results,
     optimized_results, selector, artifact_file >>

vars == << call, ret, loadVars, evalVars, mainVars >>

\* nothing counted, printed or built yet
Untouched ==
  /\ correct_model = 0
  /\ correct_cost = 0
  /\ total_risk_recall = 0
  /\ total_risk_precision = 0
  /\ risk_examples = 0
  /\ out = << >>
  /\ train = << >>
  /\ val = << >>
  /\ baseline_score = None
  /\ optimized_score = None
  /\ heuristic_results = None
  /\ optimized_results = None
  /\ selector = "none"
  /\ artifact_file = NoFile

Init ==
  /\ call \in Calls \cup MetricCalls
  /\ ret = Pending
  /\ pc = "idle"
  /\ lines = << >>
  /\ i = 0
  /\ examples = << >>
  /\ Untouched

CallDeriveOptimalRouting ==
  /\ ret = Pending
  /\ call.fn = "derive_optimal_routing"
  /\ ret' = derive_optimal_routing(call.arg)
  /\ UNCHANGED << call, loadVars, evalVars, mainVars >>

CallDetectRiskFlags ==
  /\ ret = Pending
  /\ call.fn = "detect_risk_flags"
  /\ ret' = Ret(DetectRiskFlags(call.arg))
  /\ UNCHANGED << call, loadVars, evalVars, mainVars >>

CallClassifyTaskType ==
  /\ ret = Pending
  /\ call.fn = "classify_task_type"
  /\ ret' = Ret(ClassifyTaskType(call.arg))
  /\ UNCHANGED << call, loadVars, evalVars, mainVars >>

CallDeriveCostBand ==
  /\ ret = Pending
  /\ call.fn = "derive_cost_band"
  /\ ret' = derive_cost_band(call.arg)
  /\ UNCHANGED << call, loadVars, evalVars, mainVars >>

CallRoutingMetric ==
  /\ ret = Pending
  /\ call.fn = "routing_metric"
  /\ ret' = routing_metric(call.arg.example, call.arg.prediction)
  /\ UNCHANGED << call, loadVars, evalVars, mainVars >>

Next ==
  \/ CallDeriveOptimalRouting
  \/ CallDetectRiskFlags
  \/ CallClassifyTaskType
  \/ CallDeriveCostBand
  \/ CallRoutingMetric

Spec == Init /\ [][Next]_vars

\* ---- load_training_data, one step per line of the file

InitLoad ==
  /\ call \in LoadCalls
  /\ ret = Pending
  /\ pc = "open"
  /\ lines = << >>
  /\ i = 0
  /\ examples = << >>
  /\ Untouched

\* the file is missing
LoadNotFound ==
  /\ pc = "open"
  /\ ~call.arg.evals_path.exists
  /\ pc' = "done"
  /\ ret' = Raise("FileNotFoundError")
  /\ UNCHANGED << call, lines, i, examples, evalVars, mainVars >>

LoadOpen ==
  /\ pc = "open"
  /\ call.arg.evals_path.exists
  /\ lines' = StripSplit(call.arg.evals_path.text)
  /\ pc' = "loop"
  /\ UNCHANGED << call, ret, i, examples, evalVars, mainVars >>

\* what the loop body makes of the next line
NextLine == load_line(lines[i + 1], call.arg.max_prompt_length)

\* the next line is passed over by a `continue`
LoadSkip ==
  /\ pc = "loop"
  /\ i < Len(lines)
  /\ NextLine = Skip
  /\ i' = i + 1
  /\ UNCHANGED << call, ret, pc, lines, examples, evalVars, mainVars >>

AppendExample(r) ==
  /\ ~Raises(r)
  /\ examples' = Append(examples, r.val)

\* the next line gives an example
LoadAppend ==
  /\ pc = "loop"
  /\ i < Len(lines)
  /\ AppendExample(NextLine)
  /\ i' = i + 1
  /\ UNCHANGED << call, ret, pc, lines, evalVars, mainVars >>

EndRaising(r) ==
  /\ Raises(r)
  /\ r # Skip
  /\ ret' = r

\* the next line raises an exception nothing catches: the call ends with it
LoadAbort ==
  /\ pc = "loop"
  /\ i < Len(lines)
  /\ EndRaising(NextLine)
  /\ pc' = "done"
  /\ i' = i + 1
  /\ UNCHANGED << call, lines, examples, evalVars, mainVars >>

LoadReturn ==
  /\ pc = "loop"
  /\ i = Len(lines)
  /\ ret' = Ret(examples)
  /\ pc' = "done"
  /\ UNCHANGED << call, lines, i, examples, evalVars, mainVars >>

NextLoad ==
  \/ LoadNotFound
  \/ LoadOpen
  \/ LoadSkip
  \/ LoadAppend
  \/ LoadAbort
  \/ LoadReturn

SpecLoad == InitLoad /\ [][NextLoad]_vars

\* ------------------------------------------------------------- the evaluator

\* a / b, kept exact
Frac(a, b) == [num |-> a, den |-> b]

\* the dict heuristic_baseline returns for every example
heuristic_baseline ==
  Dict([recommended_model |-> Str(CLAUDE_SONNET),
        recommended_agent |-> Word("claude"),
        confidence |-> Word("medium"),
        risk_flags |-> List(<< >>),
        cost_estimate |-> Word("medium"),
        reasoning |-> Word("Heuristic default: always use Claude Sonnet.")])

ResultFields ==
  { "recommended_model", "recommended_agent", "confidence", "risk_flags",
    "cost_estimate", "reasoning" }

\* the try block of optimized_predict fails: the selector raised, or the
\* result lacks an attribute that is read
Caught(outcome) ==
  Raises(outcome) \/ \E a \in ResultFields : outcome.val[a] = Absent

\* optimized_predict of an example on which the selector call ended with
\* outcome: the dict returned and what was printed
optimized_predict(outcome) ==
  IF Caught(outcome)
    THEN [val |-> heuristic_baseline, printed |-> << [text |-> "  Prediction error: {e}"] >>]
  ELSE [val |-> Dict([outcome.val EXCEPT
                        !.risk_flags = IF Falsy(@) THEN List(<< >>) ELSE @]),
        printed |-> << >>]

\* predict_fn(ex) for the j-th example
Predict(predict_fn, j) ==
  IF predict_fn.kind = "heuristic_baseline"
    THEN [ret |-> Ret(heuristic_baseline), printed |-> << >>]
  ELSE IF predict_fn.kind = "optimized_predict"
    THEN [ret |-> Ret(optimized_predict(predict_fn.outcomes[j]).val),
          printed |-> optimized_predict(predict_fn.outcomes[j]).printed]
  ELSE [ret |-> predict_fn.outcomes[j], printed |-> << >>]

\* pred[key]
Subscript(pred, key) ==
  IF ~IsDict(pred) THEN Raise("TypeError")
  ELSE IF pred.v[key] = Absent THEN Raise("KeyError")
  ELSE Ret(pred.v[key])

\* set(pred.get("risk_flags", []))
PredFlags(pred) ==
  IF Get(pred.v, "risk_flags", List(<< >>)) = None THEN Raise("TypeError")
  ELSE Ret(SetOf(Get(pred.v, "risk_flags", List(<< >>)).v))

CountModel(acc, ex, pred) ==
  IF pred.v.recommended_model = ex.recommended_model
    THEN [acc EXCEPT !.correct_model = @ + 1]
  ELSE acc

CountCost(acc, ex, pred) ==
  IF IsStr(pred.v.cost_estimate) /\ pred.v.cost_estimate.v = ex.cost_estimate
    THEN [acc EXCEPT !.correct_cost = @ + 1]
  ELSE acc

\* len(pred_flags & true_flags) / len(true_flags), in sixtieths
RecallTerm(pred_flags, true_flags) ==
  (60 * Cardinality(pred_flags \cap true_flags)) \div Cardinality(true_flags)

PrecisionTerm_per_true_flag(pred_flags, true_flags) ==
  IF pred_flags # {}
    THEN (60 * Cardinality(pred_flags \cap true_flags)) \div Cardinality(true_flags)
  ELSE 0

\* what an example adds to total_risk_precision, in sixtieths
PrecisionTerm(pred_flags, true_flags) ==
  IF pred_flags # {}
    THEN (60 * Cardinality(pred_flags \cap true_flags)) \div Cardinality(pred_flags)
  ELSE 0

CountRisk(acc, pred_flags, true_flags) ==
  IF true_flags # {}
    THEN [acc EXCEPT !.risk_examples = @ + 1,
                     !.total_risk_recall = @ + RecallTerm(pred_flags, true_flags),
                     !.total_risk_precision =
                        @ + PrecisionTerm(pred_flags, true_flags)]
  ELSE acc

\* the body of the loop of evaluate_predictions from the first use of pred
\* on: the locals after it, and the exception that left it, if any
EvalStep(acc, ex, pred) ==
  IF Raises(Subscript(pred, "recommended_model"))
    THEN [raised |-> Subscript(pred, "recommended_model").raised, acc |-> acc]
  ELSE IF Raises(Subscript(pred, "cost_estimate"))
    THEN [raised |-> "KeyError", acc |-> CountModel(acc, ex, pred)]
  ELSE IF Raises(PredFlags(pred))
    THEN [raised |-> "TypeError",
          acc |-> CountCost(CountModel(acc, ex, pred), ex, pred)]
  ELSE [raised |-> "none",
        acc |-> CountRisk(CountCost(CountModel(acc, ex, pred), ex, pred),
                          PredFlags(pred).val, SetOf(ex.risk_flags))]

\* the body of the loop for the j-th example
EvalExample(acc, ex, prediction) ==
  IF Raises(prediction) THEN [raised |-> prediction.raised, acc |-> acc]
  ELSE EvalStep(acc, ex, prediction.val)

\* the dict evaluate_predictions returns
EvalResults(acc, n, label) ==
  [label |-> label,
   n |-> n,
   model_accuracy |-> IF n # 0 THEN Frac(acc.correct_model, n) ELSE Frac(0, 1),
   cost_accuracy |-> IF n # 0 THEN Frac(acc.correct_cost, n) ELSE Frac(0, 1),
   risk_recall |->
     IF acc.risk_examples # 0
       THEN Frac(acc.total_risk_recall, 60 * acc.risk_examples)
     ELSE Frac(1, 1),
   risk_precision |->
     IF acc.risk_examples # 0
       THEN Frac(acc.total_risk_precision, 60 * acc.risk_examples)
     ELSE Frac(1, 1),
   risk_examples |-> acc.risk_examples]

\* most examples given to evaluate_predictions
MaxExamples == 2

EvalLabels ==
  { [recommended_model |-> Str(CLAUDE_SONNET), risk_flags |-> << >>,
     cost_estimate |-> "medium"],
    [recommended_model |-> Str(GPT_CODEX), risk_flags |-> << "schema-migration" >>,
     cost_estimate |-> "low"],
    [recommended_model |-> Str(CLAUDE_OPUS),
     risk_flags |-> << "schema-migration", "cross-service" >>,
     cost_estimate |-> "high"] }

\* a prediction with every field
Full(model, flags, cost) ==
  [recommended_model |-> Str(model), recommended_agent |-> Word("codex"),
   confidence |-> Word("high"), risk_flags |-> flags,
   cost_estimate |-> Word(cost), reasoning |-> Word("...")]

FullPredictions ==
  { Full(GPT_CODEX, List(<< "schema-migration" >>), "low"),
    Full(GPT_CODEX, List(<< "schema-migration", "cross-service" >>), "low"),
    Full(CLAUDE_OPUS, List(<< "cross-service", "rsc-serialization", "cross-service" >>),
         "high"),
    Full(CLAUDE_SONNET, List(<< >>), "high") }

\* what a predict_fn may do on an example: raise, return no dict, return a
\* dict lacking a key or holding None for the flags, return a full dict
FnOutcomes ==
  { Raise("RuntimeError"), Ret(None),
    Ret(Dict([Full(GPT_CODEX, List(<< >>), "low") EXCEPT !.recommended_model = Absent])),
    Ret(Dict([Full(GPT_CODEX, List(<< >>), "low") EXCEPT !.cost_estimate = Absent])),
    Ret(Dict([Full(GPT_CODEX, List(<< >>), "low") EXCEPT !.risk_flags = Absent])),
    Ret(Dict([Full(GPT_CODEX, List(<< >>), "low") EXCEPT !.risk_flags = None])) }
    \cup {Ret(Dict(p)) : p \in FullPredictions}

\* what the selector call of optimized_predict may do: raise, or return a
\* result that lacks an attribute or has every one
SelectorOutcomes ==
  { Raise("Exception"),
    Ret([Full(GPT_CODEX, List(<< >>), "low") EXCEPT !.recommended_model = Absent]),
    Ret([Full(GPT_CODEX, List(<< >>), "low") EXCEPT !.reasoning = Absent]),
    Ret([Full(GPT_CODEX, List(<< >>), "low") EXCEPT !.risk_flags = None]) }
    \cup {Ret(p) : p \in FullPredictions}

ExampleLists == UNION {[1..n -> EvalLabels] : n \in 0..MaxExamples}

PredictFns(n) ==
  {[kind |-> "heuristic_baseline", outcomes |-> << >>]}
    \cup {[kind |-> "optimized_predict", outcomes |-> o] : o \in [1..n -> SelectorOutcomes]}
    \cup {[kind |-> "predict_fn", outcomes |-> o] : o \in [1..n -> FnOutcomes]}

EvalCall(exs, f) ==
  [fn |-> "evaluate_predictions",
   arg |-> [examples |-> exs, predict_fn |-> f, label |-> "label"]]

\* ---- evaluate_predictions, one step per example

InitEval ==
  /\ \E exs \in ExampleLists :
       \E f \in PredictFns(Len(exs)) : call = EvalCall(exs, f)
  /\ ret = Pending
  /\ pc = "call"
  /\ lines = << >>
  /\ i = 0
  /\ examples = << >>
  /\ Untouched

Locals ==
  [correct_model |-> correct_model, correct_cost |-> correct_cost,
   total_risk_recall |-> total_risk_recall,
   total_risk_precision |-> total_risk_precision,
   risk_examples |-> risk_examples]

SetLocals(acc) ==
  /\ correct_model' = acc.correct_model
  /\ correct_cost' = acc.correct_cost
  /\ total_risk_recall' = acc.total_risk_recall
  /\ total_risk_precision' = acc.total_risk_precision
  /\ risk_examples' = acc.risk_examples

EvalBegin ==
  /\ pc = "call"
  /\ SetLocals([correct_model |-> 0, correct_cost |-> 0, total_risk_recall |-> 0,
                total_risk_precision |-> 0, risk_examples |-> 0])
  /\ pc' = "loop"
  /\ UNCHANGED << call, ret, lines, i, examples, out, mainVars >>

\* the loop body for the next example
NextExample ==
  EvalExample(Locals, call.arg.examples[i + 1],
              Predict(call.arg.predict_fn, i + 1).ret)

Counted(step) ==
  /\ step.raised = "none"
  /\ SetLocals(step.acc)

\* the next example is predicted and counted
EvalCount ==
  /\ pc = "loop"
  /\ i < Len(call.arg.examples)
  /\ Counted(NextExample)
  /\ out' = out \o Predict(call.arg.predict_fn, i + 1).printed
  /\ i' = i + 1
  /\ UNCHANGED << call, ret, pc, lines, examples, mainVars >>

Failed(step) ==
  /\ step.raised # "none"
  /\ SetLocals(step.acc)
  /\ ret' = Raise(step.raised)

\* predict_fn, or a use of what it returned, raises: nothing in
\* evaluate_predictions catches it
EvalAbort ==
  /\ pc = "loop"
  /\ i < Len(call.arg.examples)
  /\ Failed(NextExample)
  /\ out' = out \o Predict(call.arg.predict_fn, i + 1).printed
  /\ pc' = "done"
  /\ i' = i + 1
  /\ UNCHANGED << call, lines, examples, mainVars >>

EvalReturn ==
  /\ pc = "loop"
  /\ i = Len(call.arg.examples)
  /\ ret' = Ret(EvalResults(Locals, Len(call.arg.examples), call.arg.label))
  /\ pc' = "done"
  /\ UNCHANGED << call, lines, i, examples, evalVars, mainVars >>

NextEval ==
  \/ EvalBegin
  \/ EvalCount
  \/ EvalAbort
  \/ EvalReturn

SpecEval == InitEval /\ [][NextEval]_vars

\* ------------------------------------------------------------ whole calls

IsRet(r) == ~Raises(r)

\* the loop of load_training_data over all the lines: the first exception
\* that is no `continue` ends it, else the examples are returned in order
LoadAll(results) ==
  IF \E n \in DOMAIN results : Raises(results[n]) /\ results[n] # Skip
    THEN results[CHOOSE n \in DOMAIN results :
                   /\ Raises(results[n]) /\ results[n] # Skip
                   /\ \A m \in 1..(n - 1) : ~Raises(results[m]) \/ results[m] = Skip]
  ELSE Ret([n \in DOMAIN SelectSeq(results, IsRet) |->
              SelectSeq(results, IsRet)[n].val])

LoadLinesOf(ls, max_prompt_length) ==
  LoadAll([n \in DOMAIN ls |-> load_line(ls[n], max_prompt_length)])

load_training_data(evals_path, max_prompt_length) ==
  IF ~evals_path.exists THEN Raise("FileNotFoundError")
  ELSE LoadLinesOf(StripSplit(evals_path.text), max_prompt_length)

NoLocals ==
  [correct_model |-> 0, correct_cost |-> 0, total_risk_recall |-> 0,
   total_risk_precision |-> 0, risk_examples |-> 0]

\* the loop of evaluate_predictions from the j-th example on
RECURSIVE EvalLoop(_, _, _, _)
EvalLoop(acc, exs, predict_fn, j) ==
  IF j > Len(exs) THEN [raised |-> "none", acc |-> acc]
  ELSE IF EvalExample(acc, exs[j], Predict(predict_fn, j).ret).raised # "none"
    THEN EvalExample(acc, exs[j], Predict(predict_fn, j).ret)
  ELSE EvalLoop(EvalExample(acc, exs[j], Predict(predict_fn, j).ret).acc,
                exs, predict_fn, j + 1)

EvalEnd(loop, n, label) ==
  IF loop.raised # "none" THEN Raise(loop.raised)
  ELSE Ret(EvalResults(loop.acc, n, label))

evaluate_predictions(exs, predict_fn, label) ==
  EvalEnd(EvalLoop(NoLocals, exs, predict_fn, 1), Len(exs), label)

\* what the predictions of a call that returns print
RECURSIVE EvalPrinted(_, _, _)
EvalPrinted(exs, predict_fn, j) ==
  IF j > Len(exs) THEN << >>
  ELSE Predict(predict_fn, j).printed \o EvalPrinted(exs, predict_fn, j + 1)

\* int(len(examples) * split), split in hundredths
SplitIdx(n, split) == (n * split) \div 100

\* s[n:]
SliceFrom(s, n) ==
  IF n >= 0 THEN SubSeq(s, (IF n < Len(s) THEN n ELSE Len(s)) + 1, Len(s))
  ELSE SubSeq(s, (IF Len(s) + n > 0 THEN Len(s) + n ELSE 0) + 1, Len(s))

\* sys.exit(code)
SystemExit(code) == [raised |-> "SystemExit", code |-> code]

DEFAULT_MAX_PROMPT_LENGTH == 2000

\* --split
Splits == {0, 50, 80, 100}

\* ------------------------------------------------------------- evaluate.main

\* load_artifact
load_artifact(path) ==
  IF ~path.exists THEN Ret(None) ELSE json_loads(path.text[1])

\* `if artifact:` of what json.loads gave
Truthy(artifact) ==
  IF IsDict(artifact) THEN \E f \in DOMAIN artifact.v : artifact.v[f] # Absent
  ELSE ~Falsy(artifact)

Artifact(optimizer, created_at, few_shot_examples, teacher_model) ==
  [optimizer |-> optimizer, created_at |-> created_at,
   few_shot_examples |-> few_shot_examples, teacher_model |-> teacher_model]

\* the file at args.artifact: missing, no JSON, or the JSON of a value
ArtifactFiles ==
  { NoFile, File(<< Malformed >>), File(<< Json(Num(5)) >>),
    File(<< Json(Dict(Artifact(Absent, Absent, Absent, Absent))) >>),
    File(<< Json(Dict(Artifact(Word("MIPROv2"), Word("2026-01-01"), List(<< >>),
                              Absent))) >>),
    File(<< Json(Dict(Artifact(Word("MIPROv2"), Word("2026-01-01"), List(<< >>),
                              Str(CLAUDE_OPUS)))) >> ) }

\* the lines of an evals file given to main
MainLines ==
  { Malformed, Json(None),
    Json(Dict(Rec(Str(<<"a","d","d"," ","a"," ","n","e","w"," ","d","a","s","h","b","o","a","r","d"," ","p","a","g","e">>), Str(<<"w","a","v","e","m","i","l","l">>),
                  Str(CLAUDE_SONNET), Num(95), Num(0), Num(7)))),
    Json(Dict(Rec(Str(<<"f","i","x"," ","t","h","e"," ","b","r","o","k","e","n"," ","q","u","e","r","y"," ","i","n"," ","t","h","e"," ","p","r","i","s","m","a"," ","s","c","h","e","m","a">>), Absent,
                  Str(GPT_CODEX), Num(60), Num(2), Absent))),
    Json(Dict(Rec(Str(<<"a","d","d"," ","p","r","i","s","m","a"," ","m","i","g","r","a","t","i","o","n">>), Absent, Str(CLAUDE_OPUS), Num(85),
                  Num(1), Num(26)))) }

MainFiles ==
  {NoFile} \cup {File(ls) : ls \in UNION {[1..n -> MainLines] : n \in 0..MaxLines}}

EvaluateCalls ==
  {[fn |-> "evaluate.main",
    arg |-> [evals |-> f, artifact |-> a, split |-> s, use_api |-> u]] :
     f \in MainFiles, a \in ArtifactFiles, s \in Splits, u \in BOOLEAN}

InitEvaluate ==
  /\ call \in EvaluateCalls
  /\ ret = Pending
  /\ pc = "load"
  /\ lines = << >>
  /\ i = 0
  /\ examples = << >>
  /\ Untouched

Loaded(r) ==
  /\ ~Raises(r)
  /\ examples' = r.val

LoadFailed(r) ==
  /\ Raises(r)
  /\ ret' = r

\* examples = load_training_data(args.evals), split_idx, val
EvaluateLoad ==
  /\ call.fn = "evaluate.main"
  /\ pc = "load"
  /\ Loaded(load_training_data(call.arg.evals, DEFAULT_MAX_PROMPT_LENGTH))
  /\ pc' = "split"
  /\ UNCHANGED << call, ret, lines, i, evalVars, mainVars >>

\* load_training_data raises: main ends with the exception
EvaluateLoadFails ==
  /\ call.fn = "evaluate.main"
  /\ pc = "load"
  /\ LoadFailed(load_training_data(call.arg.evals, DEFAULT_MAX_PROMPT_LENGTH))
  /\ pc' = "done"
  /\ UNCHANGED << call, lines, i, examples, evalVars, mainVars >>

\* Counter(ex.recommended_model for ex in val).most_common(): the models by
\* falling count, those of equal count in the order of their first example
CountOf(exs, m) == Cardinality({n \in DOMAIN exs : exs[n].recommended_model = m})
FirstOf(exs, m) == CHOOSE n \in DOMAIN exs :
                     /\ exs[n].recommended_model = m
                     /\ \A k \in 1..(n - 1) : exs[k].recommended_model # m
Before(exs, a, b) ==
  \/ CountOf(exs, a) > CountOf(exs, b)
  \/ CountOf(exs, a) = CountOf(exs, b) /\ FirstOf(exs, a) < FirstOf(exs, b)
ModelsOf(exs) == {exs[n].recommended_model : n \in DOMAIN exs}
most_common(exs) ==
  [r \in 1..Cardinality(ModelsOf(exs)) |->
     CHOOSE m \in ModelsOf(exs) :
       Cardinality({a \in ModelsOf(exs) : Before(exs, a, m)}) = r - 1]

DistributionLines(exs) ==
  [r \in DOMAIN most_common(exs) |->
     [text |-> "  {model}: {count} ({pct:.1f}%)",
      model |-> most_common(exs)[r],
      count |-> CountOf(exs, most_common(exs)[r]),
      pct |-> Frac(100 * CountOf(exs, most_common(exs)[r]), Len(exs))]]

\* val = examples[split_idx:] and the prints up to the label distribution
EvaluateSplit ==
  /\ call.fn = "evaluate.main"
  /\ pc = "split"
  /\ val' = SliceFrom(examples, SplitIdx(Len(examples), call.arg.split))
  /\ out' = out \o << [text |-> "Evaluation set: {n} examples", n |-> Len(val')],
                      [text |-> ""], [text |-> "Label distribution:"] >>
                \o DistributionLines(val') \o << [text |-> ""] >>
  /\ pc' = "heuristic"
  /\ UNCHANGED << call, ret, lines, i, examples, correct_model, correct_cost,
                  total_risk_recall, total_risk_precision, risk_examples, train,
                  baseline_score, optimized_score, heuristic_results,
                  optimized_results, selector, artifact_file >>

\* heuristic_results = evaluate_predictions(val, heuristic_baseline, ...)
EvaluateHeuristic ==
  /\ call.fn = "evaluate.main"
  /\ pc = "heuristic"
  /\ heuristic_results' =
       evaluate_predictions(val, [kind |-> "heuristic_baseline", outcomes |-> << >>],
                            "Heuristic (always Sonnet)").val
  /\ pc' = "artifact"
  /\ UNCHANGED << call, ret, lines, i, examples, evalVars, train, val,
                  baseline_score, optimized_score, optimized_results, selector,
                  artifact_file >>

\* the comparison table
Row(label, key) ==
  IF optimized_results' = None
    THEN [text |-> "{label:<25} {h_val:>14.1%}", label |-> label,
          h_val |-> heuristic_results[key]]
  ELSE [text |-> "{label:<25} {h_val:>14.1%} {o_val:>14.1%} {delta:>+9.1%}",
        label |-> label, h_val |-> heuristic_results[key],
        o_val |-> optimized_results'[key]]

Table ==
  << [text |-> "======"],
     [text |-> IF optimized_results' = None THEN "Metric Heuristic"
               ELSE "Metric Heuristic Optimized Delta"],
     [text |-> "------"],
     Row("Model Accuracy", "model_accuracy"), Row("Cost Accuracy", "cost_accuracy"),
     Row("Risk Recall", "risk_recall"), Row("Risk Precision", "risk_precision"),
     [text |-> "======"] >>

NoArtifact(artifact) ==
  /\ ~Raises(artifact)
  /\ ~Truthy(artifact.val)

\* load_artifact gives None, or a value that counts as false: the optimized
\* evaluation is skipped and the table printed
EvaluateSkipOptimized ==
  /\ call.fn = "evaluate.main"
  /\ pc = "artifact"
  /\ NoArtifact(load_artifact(call.arg.artifact))
  /\ optimized_results' = None
  /\ out' = out \o << [text |-> "No artifact found at {path}"], [text |-> ""] >>
                \o Table
  /\ ret' = Ret(None)
  /\ pc' = "done"
  /\ UNCHANGED << call, lines, i, examples, correct_model, correct_cost,
                  total_risk_recall, total_risk_precision, risk_examples, train,
                  val, baseline_score, optimized_score, heuristic_results,
                  selector, artifact_file >>

\* json.loads of the artifact raises, or artifact.get is read of a value
\* that is no dict
ArtifactError(artifact) ==
  IF Raises(artifact) THEN artifact
  ELSE IF Truthy(artifact.val) /\ ~IsDict(artifact.val) THEN Raise("AttributeError")
  ELSE Ret(artifact.val)

BadArtifact(r) ==
  /\ Raises(r)
  /\ ret' = r

EvaluateArtifactFails ==
  /\ call.fn = "evaluate.main"
  /\ pc = "artifact"
  /\ BadArtifact(ArtifactError(load_artifact(call.arg.artifact)))
  /\ out' = IF Raises(load_artifact(call.arg.artifact)) THEN out
            ELSE out \o << [text |-> "Loaded artifact: {path}"] >>
  /\ pc' = "done"
  /\ UNCHANGED << call, lines, i, examples, correct_model, correct_cost,
                  total_risk_recall, total_risk_precision, risk_examples, mainVars >>

GoodArtifact(r) ==
  /\ ~Raises(r)
  /\ Truthy(r.val)

ArtifactLines(artifact) ==
  << [text |-> "Loaded artifact: {path}"],
     [text |-> "  Optimizer: {optimizer}",
      optimizer |-> Get(artifact, "optimizer", None)],
     [text |-> "  Created: {created_at}",
      created_at |-> Get(artifact, "created_at", None)],
     [text |-> "  Few-shot examples: {n}",
      n |-> Len(Get(artifact, "few_shot_examples", List(<< >>)).v)],
     [text |-> ""] >>

\* the artifact is there: the selector is built and evaluated through
\* optimized_predict, whatever the selector does on each example, and the
\* table printed
EvaluateOptimized ==
  /\ call.fn = "evaluate.main"
  /\ pc = "artifact"
  /\ GoodArtifact(ArtifactError(load_artifact(call.arg.artifact)))
  /\ selector' = "built"
  /\ \E o \in [DOMAIN val -> SelectorOutcomes] :
       /\ optimized_results' =
            evaluate_predictions(val, [kind |-> "optimized_predict", outcomes |-> o],
                                 "Optimized (DSPy MIPROv2)").val
       /\ out' = out \o ArtifactLines(load_artifact(call.arg.artifact).val.v)
                     \o EvalPrinted(val, [kind |-> "optimized_predict",
                                          outcomes |-> o], 1)
                     \o Table
  /\ ret' = Ret(None)
  /\ pc' = "done"
  /\ UNCHANGED << call, lines, i, examples, correct_model, correct_cost,
                  total_risk_recall, total_risk_precision, risk_examples, train,
                  val, baseline_score, optimized_score, heuristic_results,
                  artifact_file >>

NextEvaluate ==
  \/ EvaluateLoad
  \/ EvaluateLoadFails
  \/ EvaluateSplit
  \/ EvaluateHeuristic
  \/ EvaluateSkipOptimized
  \/ EvaluateArtifactFails
  \/ EvaluateOptimized

SpecEvaluate == InitEvaluate /\ [][NextEvaluate]_vars

\* ------------------------------------------------------------- optimize.main

\* most record lines of an evals file given to optimize.main
MaxRecords == 11

TooFew_nine(n) == n < 9

\* if len(examples) < 10
TooFew(n) == n < 10

\* files of n equal record lines, a line that is no record after them or not
OptimizeFiles ==
  {NoFile}
    \cup {File([k \in 1..n |-> l] \o t) :
            n \in 0..MaxRecords,
            l \in {ln \in MainLines : ln.kind = "json" /\ IsDict(ln.value)},
            t \in {<< >>, << Malformed >>, << Json(None) >>}}

\* what dspy's evaluator may give as a score, in hundredths
ValScores == {0, 50, 100}

OptimizeCalls ==
  {[fn |-> "optimize.main",
    arg |-> [evals |-> f, teacher |-> CLAUDE_SONNET, runtime |-> CLAUDE_HAIKU,
             split |-> s, use_api |-> u]] :
     f \in OptimizeFiles, s \in Splits, u \in BOOLEAN}

InitOptimize ==
  /\ call \in OptimizeCalls
  /\ ret = Pending
  /\ pc = "configure"
  /\ lines = << >>
  /\ i = 0
  /\ examples = << >>
  /\ Untouched

Stdout(text) == [text |-> text]
Stderr(text) == [text |-> text, file |-> "stderr"]

\* 1. Configure DSPy
OptimizeConfigure ==
  /\ call.fn = "optimize.main"
  /\ pc = "configure"
  /\ out' = out \o << Stdout("Configuring DSPy with teacher model: {teacher}"),
                      IF call.arg.use_api
                        THEN Stdout("  Using Anthropic API directly (ANTHROPIC_API_KEY)")
                      ELSE Stdout("  Using claude CLI (subscription)") >>
  /\ pc' = "load"
  /\ UNCHANGED << call, ret, lines, i, examples, correct_model, correct_cost,
                  total_risk_recall, total_risk_precision, risk_examples, mainVars >>

LoadedLine(n) == [text |-> "  Loaded {n} examples", n |-> n]

\* 2. Load data
OptimizeLoad ==
  /\ call.fn = "optimize.main"
  /\ pc = "load"
  /\ Loaded(load_training_data(call.arg.evals, DEFAULT_MAX_PROMPT_LENGTH))
  /\ out' = out \o << Stdout("Loading training data from: {evals_path}"),
                      LoadedLine(Len(examples')) >>
  /\ pc' = "check"
  /\ UNCHANGED << call, ret, lines, i, correct_model, correct_cost,
                  total_risk_recall, total_risk_precision, risk_examples, mainVars >>

OptimizeLoadFails ==
  /\ call.fn = "optimize.main"
  /\ pc = "load"
  /\ LoadFailed(load_training_data(call.arg.evals, DEFAULT_MAX_PROMPT_LENGTH))
  /\ out' = out \o << Stdout("Loading training data from: {evals_path}") >>
  /\ pc' = "done"
  /\ UNCHANGED << call, lines, i, examples, correct_model, correct_cost,
                  total_risk_recall, total_risk_precision, risk_examples, mainVars >>

\* too few examples: the error is printed and the run exits with status 1
OptimizeTooFew ==
  /\ call.fn = "optimize.main"
  /\ pc = "check"
  /\ TooFew(Len(examples))
  /\ out' = out \o << Stderr("ERROR: Need at least 10 examples for optimization.") >>
  /\ ret' = SystemExit(1)
  /\ pc' = "done"
  /\ UNCHANGED << call, lines, i, examples, correct_model, correct_cost,
                  total_risk_recall, total_risk_precision, risk_examples, mainVars >>

\* 3. Split and 4. Build module
OptimizeSplit ==
  /\ call.fn = "optimize.main"
  /\ pc = "check"
  /\ ~TooFew(Len(examples))
  /\ train' = SliceTo(examples, SplitIdx(Len(examples), call.arg.split))
  /\ val' = SliceFrom(examples, SplitIdx(Len(examples), call.arg.split))
  /\ out' = out \o << [text |-> "  Split: {train} train, {val} val",
                       train |-> Len(train'), val |-> Len(val')] >>
  /\ selector' = "built"
  /\ pc' = "baseline"
  /\ UNCHANGED << call, ret, lines, i, examples, correct_model, correct_cost,
                  total_risk_recall, total_risk_precision, risk_examples,
                  baseline_score, optimized_score, heuristic_results,
                  optimized_results, artifact_file >>

\* 5. Evaluate baseline: the score is dspy's
OptimizeBaseline ==
  /\ call.fn = "optimize.main"
  /\ pc = "baseline"
  /\ \E s \in ValScores : baseline_score' = Num(s)
  /\ out' = out \o << Stdout("Evaluating baseline (unoptimized)..."),
                      [text |-> "  Baseline val score: {score:.4f}",
                       score |-> baseline_score'] >>
  /\ pc' = "compile"
  /\ UNCHANGED << call, ret, lines, i, examples, correct_model, correct_cost,
                  total_risk_recall, total_risk_precision, risk_examples, train,
                  val, optimized_score, heuristic_results, optimized_results,
                  selector, artifact_file >>

\* 6. Optimize with MIPROv2
OptimizeCompile ==
  /\ call.fn = "optimize.main"
  /\ pc = "compile"
  /\ selector' = "optimized"
  /\ out' = out \o << Stdout("Running MIPROv2 optimization...") >>
  /\ pc' = "evaluate"
  /\ UNCHANGED << call, ret, lines, i, examples, correct_model, correct_cost,
                  total_risk_recall, total_risk_precision, risk_examples, train,
                  val, baseline_score, optimized_score, heuristic_results,
                  optimized_results, artifact_file >>

\* 7. Evaluate optimized
OptimizeEvaluate ==
  /\ call.fn = "optimize.main"
  /\ pc = "evaluate"
  /\ \E s \in ValScores : optimized_score' = Num(s)
  /\ out' = out \o << Stdout("Evaluating optimized selector..."),
                      [text |-> "  Optimized val score: {score:.4f}",
                       score |-> optimized_score'] >>
  /\ pc' = "export"
  /\ UNCHANGED << call, ret, lines, i, examples, correct_model, correct_cost,
                  total_risk_recall, total_risk_precision, risk_examples, train,
                  val, baseline_score, heuristic_results, optimized_results,
                  selector, artifact_file >>

\* a call into dspy (the evaluator, the optimizer) raises
OptimizeLibraryFails ==
  /\ call.fn = "optimize.main"
  /\ pc \in {"baseline", "compile", "evaluate"}
  /\ ret' = Raise("Exception")
  /\ pc' = "done"
  /\ UNCHANGED << call, lines, i, examples, evalVars, mainVars >>

\* export_artifact
export_artifact(val_score, teacher_model, runtime_model, training_count, val_count) ==
  [version |-> "1.0.0",
   optimizer |-> "MIPROv2",
   teacher_model |-> teacher_model,
   runtime_model |-> runtime_model,
   model_candidates |-> << CLAUDE_SONNET, GPT_CODEX, CLAUDE_OPUS, CLAUDE_HAIKU >>,
   metadata |-> [training_records |-> training_count,
                 validation_records |-> val_count,
                 val_score |-> val_score]]

\* 8. Export artifact: the file at args.output is written
OptimizeExport ==
  /\ call.fn = "optimize.main"
  /\ pc = "export"
  /\ artifact_file' =
       File(<< Json(Dict(export_artifact(optimized_score, call.arg.teacher,
                                         call.arg.runtime, Len(train), Len(val)))) >>)
  /\ out' = out \o << Stdout("Artifact written to: {output_path}"), Stdout("Done.") >>
  /\ ret' = Ret(None)
  /\ pc' = "done"
  /\ UNCHANGED << call, lines, i, examples, correct_model, correct_cost,
                  total_risk_recall, total_risk_precision, risk_examples, train,
                  val, baseline_score, optimized_score, heuristic_results,
                  optimized_results, selector >>

NextOptimize ==
  \/ OptimizeConfigure
  \/ OptimizeLoad
  \/ OptimizeLoadFails
  \/ OptimizeTooFew
  \/ OptimizeSplit
  \/ OptimizeBaseline
  \/ OptimizeCompile
  \/ OptimizeEvaluate
  \/ OptimizeLibraryFails
  \/ OptimizeExport

SpecOptimize == InitOptimize /\ [][NextOptimize]_vars

\* ------------------------------------------------------------------ the claims
\* Under Spec a state holds one call and, once made, what it returned.

\* derive_optimal_routing has returned a label
Derived ==
  /\ call.fn = "derive_optimal_routing"
  /\ ret.raised = "none"

\* the record lacks none of the fields the decision reads
Complete(r) ==
  /\ IsStr(r.originalPrompt)
  /\ IsStr(r.modelId)
  /\ IsNum(r.score)
  /\ IsNum(r.interventionCount)

\* the rules of the decision, as the specification words them
CheapLowScore(r) == r.modelId.v = GPT_CODEX /\ r.score.v < 85

NewWorkCount(p) == CountTrue(GREENFIELD_PATTERNS(p))
ExistingWorkCount(p) == CountTrue(MODIFICATION_PATTERNS(p))

CleanGreenfield(r) ==
  /\ r.score.v >= 90
  /\ r.interventionCount.v = 0
  /\ NewWorkCount(r.originalPrompt.v) > ExistingWorkCount(r.originalPrompt.v)

Adequate(r) == r.score.v >= 85 /\ r.interventionCount.v <= 1

\* C1: a record of the cheap model gpt-5.3-codex with a score below 0.85 is
\* given the safe default model, whatever its prompt, interventionCount and
\* workflowCost are.
C1_CheapLowScoreGetsDefault ==
  (call.fn = "derive_optimal_routing" /\ ret # Pending
     /\ IsStr(call.arg.modelId) /\ IsNum(call.arg.score)
     /\ CheapLowScore(call.arg))
    => (Derived /\ ret.val.recommended_model = Str(DEFAULT_MODEL))

\* a greenfield prompt, no intervention, a failed cheap-model run: default model
C1_Witness ==
  /\ Derived
  /\ call.arg = Rec(Str(<<"a","d","d"," ","a"," ","n","e","w"," ","d","a","s","h","b","o","a","r","d"," ","p","a","g","e">>), Absent, Str(GPT_CODEX),
                    Num(84), Num(0), Num(7))
  /\ ret.val.recommended_model = Str(CLAUDE_SONNET)

Letters == WordChars \ (Digits \cup {"_"})

\* the agent of a model id as the specification words it, where "a letter
\* followed by a digit" is any letter
AgentOfAnyLetter(m) ==
  IF m \in DOMAIN AGENT_MAP THEN AGENT_MAP[m]
  ELSE IF StartsWith(m, <<"c","l","a","u","d","e","-">>) THEN "claude"
  ELSE IF StartsWith(m, <<"g","p","t","-">>)
          \/ (Len(m) >= 2 /\ m[1] \in Letters /\ m[2] \in Digits) THEN "codex"
  ELSE "claude"

\* the same with the letter o only
AgentOfLetterO(m) ==
  IF m \in DOMAIN AGENT_MAP THEN AGENT_MAP[m]
  ELSE IF StartsWith(m, <<"c","l","a","u","d","e","-">>) THEN "claude"
  ELSE IF StartsWith(m, <<"g","p","t","-">>)
          \/ (Len(m) >= 2 /\ m[1] = "o" /\ m[2] \in Digits) THEN "codex"
  ELSE "claude"

\* C4 as claimed: in every derived label recommended_agent is claude or codex
\* and is fixed by recommended_model: the mapped agent for a mapped id, claude
\* for an id starting with "claude-", codex for an id starting with "gpt-" or
\* with a letter followed by a digit, claude for any other id.
C4_AgentOfModel_AnyLetter ==
  Derived =>
    /\ ret.val.recommended_agent \in {"claude", "codex"}
    /\ ret.val.recommended_agent = AgentOfAnyLetter(ret.val.recommended_model.v)

\* C4 as amended: the same, where only the letter o followed by a digit (as in
\* "o1") gives codex.
C4_AgentOfModel ==
  Derived =>
    /\ ret.val.recommended_agent \in {"claude", "codex"}
    /\ ret.val.recommended_agent = AgentOfLetterO(ret.val.recommended_model.v)

\* an unmapped o-series id that was kept: codex
C4_Witness ==
  /\ Derived
  /\ ret.val.recommended_model = Str(<<"o","1","-","m","i","n","i">>)
  /\ ret.val.recommended_agent = "codex"

CostBands == {"low", "medium", "high"}

\* the band of a workflowCost as the specification words it
BandAsSpecified(cost, band) ==
  /\ band \in CostBands
  /\ cost \in {Absent, None} => band = "medium"
  /\ IsNum(cost) /\ cost.v < 10 => band = "low"
  /\ IsNum(cost) /\ cost.v >= 10 /\ cost.v <= 25 => band = "medium"
  /\ IsNum(cost) /\ cost.v > 25 => band = "high"

\* C5: derive_cost_band, and the cost_estimate of every derived label, is low
\* for a cost below 10, medium from 10 to 25 (both included), high above 25,
\* medium for an absent cost, and nothing else.
C5_CostBand ==
  /\ (call.fn = "derive_cost_band" /\ ret # Pending)
       => (ret.raised = "none" /\ BandAsSpecified(call.arg, ret.val))
  /\ Derived => BandAsSpecified(call.arg.workflowCost, ret.val.cost_estimate)

\* the lower breakpoint itself: a label for a cost of exactly 10
C5_Witness ==
  /\ Derived
  /\ call.arg.workflowCost = Num(10)
  /\ ret.val.cost_estimate = "medium"

Range(s) == {s[n] : n \in DOMAIN s}

KnownFlags ==
  { "modifies-existing-runtime", "schema-migration", "large-scope-refactor",
    "cross-service", "rsc-serialization", "test-infrastructure" }

\* the thresholds as the claim lists them
ClaimedThreshold(flag) ==
  IF flag = "modifies-existing-runtime" THEN 3
  ELSE IF flag = "rsc-serialization" THEN 1
  ELSE 2

\* C6: detect_risk_flags returns names of the six known categories only, each
\* at most once, and a category is returned exactly when the number of its
\* patterns found in the text reaches its threshold (3, 1 or 2).
C6_RiskFlags ==
  (call.fn = "detect_risk_flags" /\ ret # Pending) =>
    /\ Range(ret.val) \subseteq KnownFlags
    /\ \A m, n \in DOMAIN ret.val : ret.val[m] = ret.val[n] => m = n
    /\ \A flag \in KnownFlags :
         flag \in Range(ret.val) <=>
           CountTrue(RISK_PATTERNS(flag, call.arg)) >= ClaimedThreshold(flag)

\* three of three patterns fire one flag; one pattern of another is not enough
C6_Witness ==
  /\ call.fn = "detect_risk_flags"
  /\ call.arg = <<"f","i","x"," ","t","h","e"," ","e","x","i","s","t","i","n","g"," ","q","u","e","r","y"," ","i","n"," ","p","r","i","s","m","a">>
  /\ ret = Ret(<< "modifies-existing-runtime" >>)
  /\ CountTrue(RISK_PATTERNS("schema-migration", call.arg)) = 1

\* the record of the scenario, whatever its other fields
IsPrismaScenario(r) ==
  /\ r.originalPrompt = Str(<<"f","i","x"," ","t","h","e"," ","b","r","o","k","e","n"," ","q","u","e","r","y"," ","i","n"," ","t","h","e"," ","p","r","i","s","m","a"," ","s","c","h","e","m","a">>)
  /\ r.modelId = Str(GPT_CODEX)
  /\ r.score = Num(60)
  /\ r.interventionCount = Num(2)

\* C7 as claimed: the scenario record gets the safe default model and risk
\* flags that include "schema-migration".
C7_PrismaScenario_SchemaFlag ==
  (call.fn = "derive_optimal_routing" /\ ret # Pending
     /\ IsPrismaScenario(call.arg))
    => /\ Derived
       /\ ret.val.recommended_model = Str(CLAUDE_SONNET)
       /\ "schema-migration" \in Range(ret.val.risk_flags)

\* C7 as amended: the scenario record gets the safe default model and no risk
\* flag at all.
C7_PrismaScenario ==
  (call.fn = "derive_optimal_routing" /\ ret # Pending
     /\ IsPrismaScenario(call.arg))
    => /\ Derived
       /\ ret.val.recommended_model = Str(CLAUDE_SONNET)
       /\ ret.val.risk_flags = << >>

\* the scenario was derived; schema-migration had one match, below its threshold
C7_Witness ==
  /\ Derived
  /\ IsPrismaScenario(call.arg)
  /\ call.arg.workflowCost = Absent
  /\ CountTrue(RISK_PATTERNS("schema-migration", call.arg.originalPrompt.v)) = 1
  /\ CountTrue(RISK_PATTERNS("modifies-existing-runtime",
                             call.arg.originalPrompt.v)) = 2

\* the task types in the order the claim gives
ClaimedOrder ==
  << "bugfix", "refactor", "test", "documentation", "infrastructure", "feature" >>

Matches(n, text) == \E k \in DOMAIN TASK_TYPE_PATTERNS(n, text) :
                       TASK_TYPE_PATTERNS(n, text)[k]

\* C8: classify_task_type returns the label of the first category, in the
\* order bugfix, refactor, test, documentation, infrastructure, feature, that
\* has a matching pattern, also when later categories match, and "unknown"
\* exactly when no pattern of any category matches.
C8_FirstMatchingTaskType ==
  (call.fn = "classify_task_type" /\ ret # Pending) =>
    /\ ret.raised = "none"
    /\ ret.val = "unknown" <=> \A n \in 1..6 : ~Matches(n, call.arg)
    /\ \A n \in 1..6 :
         (Matches(n, call.arg) /\ \A m \in 1..(n - 1) : ~Matches(m, call.arg))
           => ret.val = ClaimedOrder[n]

\* a text where bugfix and feature patterns both match: bugfix
C8_Witness ==
  /\ call.fn = "classify_task_type"
  /\ call.arg = <<"a","d","d"," ","a"," ","b","u","t","t","o","n"," ","a","n","d"," ","f","i","x"," ","t","h","e"," ","l","a","y","o","u","t">>
  /\ Matches(1, call.arg)
  /\ Matches(6, call.arg)
  /\ ret = Ret("bugfix")

LabelFields ==
  { "recommended_model", "recommended_agent", "confidence", "risk_flags",
    "cost_estimate", "reasoning" }

\* C9: derive_optimal_routing never fails on a historical record, whichever of
\* its fields are missing: it returns a label with all six fields set, an
\* absent interventionCount counting as 0 and an absent workflowCost as a
\* medium cost.
C9_DeriveNeverFails ==
  (call.fn = "derive_optimal_routing" /\ ret # Pending) =>
    /\ ret.raised = "none"
    /\ DOMAIN ret.val = LabelFields
    /\ IsStr(ret.val.recommended_model)
    /\ ret.val.recommended_agent \in {"claude", "codex"}
    /\ ret.val.confidence \in {"high", "medium", "low"}
    /\ Range(ret.val.risk_flags) \subseteq KnownFlags
    /\ ret.val.cost_estimate \in CostBands
    /\ call.arg.interventionCount = Absent =>
         ret = derive_optimal_routing(
                 [call.arg EXCEPT !.interventionCount = Num(0)])
    /\ call.arg.workflowCost = Absent => ret.val.cost_estimate = "medium"

\* a record with no field at all
C9_Witness ==
  /\ Derived
  /\ call.arg = Rec(Absent, Absent, Absent, Absent, Absent, Absent)
  /\ ret.val.recommended_model = Str(DEFAULT_MODEL)
  /\ ret.val.confidence = "low"
  /\ ret.val.cost_estimate = "medium"

\* Under SpecLoad a state holds a call of load_training_data on its way.

\* every field the record has is of the kind the data model gives it
RightKinds(r) ==
  /\ r.originalPrompt = Absent \/ IsStr(r.originalPrompt)
  /\ r.sourceRepo = Absent \/ IsStr(r.sourceRepo)
  /\ r.modelId = Absent \/ IsStr(r.modelId)
  /\ r.score = Absent \/ IsNum(r.score)
  /\ r.interventionCount = Absent \/ IsNum(r.interventionCount)
  /\ r.workflowCost \in {Absent, None} \/ IsNum(r.workflowCost)

\* the line is a usable record: it parses to an object whose fields are of
\* the right kind and whose prompt is not empty
Usable(line) ==
  /\ line.kind = "json"
  /\ IsDict(line.value)
  /\ RightKinds(line.value.v)
  /\ IsStr(line.value.v.originalPrompt)
  /\ line.value.v.originalPrompt.v # << >>

\* C10: over an existing file load_training_data never ends with an exception
\* on account of a line: the lines that are no usable record are skipped and
\* each of the others gives its example.
C10_LoadSkipsUnusableLines ==
  (pc = "done" /\ call.arg.evals_path.exists) =>
    /\ ret.raised = "none"
    /\ Len(ret.val) = Cardinality({n \in DOMAIN lines : Usable(lines[n])})

\* the line parses and has a non-empty originalPrompt
HasPrompt(line) ==
  /\ line.kind = "json"
  /\ IsDict(line.value)
  /\ ~Falsy(Get(line.value.v, "originalPrompt", Str(<< >>)))

\* the lines with a prompt, and the place of line n among them
PromptLines == {n \in DOMAIN lines : HasPrompt(lines[n])}
PlaceOf(n) == Cardinality({m \in PromptLines : m <= n})

\* C11: load_training_data returns, in input order, exactly one example for
\* each line that parses and has a non-empty originalPrompt, lines without a
\* prompt giving nothing and equal lines giving equal examples, each example
\* being the one its line gives alone.
C11_OneExamplePerPromptLine ==
  (pc = "done" /\ call.arg.evals_path.exists) =>
    /\ ret.raised = "none"
    /\ Len(ret.val) = Cardinality(PromptLines)
    /\ \A n \in PromptLines :
         Ret(ret.val[PlaceOf(n)]) = load_line(lines[n], call.arg.max_prompt_length)

\* t is what is left of p when it is cut to n characters
TruncatedTo(t, p, n) ==
  /\ SliceTo(t, n) = t
  /\ Len(t) <= n
  /\ Len(t) <= Len(p)
  /\ t = SubSeq(p, 1, Len(t))

\* the step appends an example
Appends == Len(examples') = Len(examples) + 1

\* C12 as claimed: for every integer max_prompt_length, also a negative one,
\* the task_prompt of an appended example is a prefix of the line's prompt of
\* at most max_prompt_length characters that a second truncation leaves as
\* it is.
C12_Truncation_AnyInteger ==
  [][Appends =>
       TruncatedTo(examples'[Len(examples')].task_prompt,
                   lines[i'].value.v.originalPrompt.v,
                   call.arg.max_prompt_length)]_vars

\* C12: for every max_prompt_length N >= 0 the task_prompt of an appended
\* example is a prefix of the line's prompt of at most N characters, and
\* truncating it to N again leaves it unchanged.
C12_Truncation ==
  [][(Appends /\ call.arg.max_prompt_length >= 0) =>
       TruncatedTo(examples'[Len(examples')].task_prompt,
                   lines[i'].value.v.originalPrompt.v,
                   call.arg.max_prompt_length)]_vars

\* a prompt of 24 characters was cut to its first 5
C12_Witness ==
  /\ call.arg.max_prompt_length = 5
  /\ i = 1
  /\ Len(examples) = 1
  /\ lines[1].value.v.originalPrompt = Str(<<"a","d","d"," ","a"," ","n","e","w"," ","d","a","s","h","b","o","a","r","d"," ","p","a","g","e">>)
  /\ examples[1].task_prompt = <<"a","d","d"," ","a">>

\* the model ids a comma-separated available_models text lists
ListedModels(s) ==
  LET commas == {n \in DOMAIN s : s[n] = ","} \cup {0, Len(s) + 1}
      next(a) == CHOOSE b \in commas : b > a /\ \A c \in commas : c > a => b <= c
  IN  {SubSeq(s, a + 1, next(a) - 1) : a \in commas \ {Len(s) + 1}}

\* C18: in every example load_training_data builds, the label's
\* recommended_model is one of the model ids its available_models field lists.
C18_RecommendedModelIsAvailable ==
  \A n \in DOMAIN examples :
    /\ IsStr(examples[n].recommended_model)
    /\ examples[n].recommended_model.v \in ListedModels(examples[n].available_models)

\* Under Spec again: the order of the rules of derive_optimal_routing.

\* the record has a score of 0.85 or more and at most one intervention
WorkedWell(r) ==
  /\ IsStr(r.originalPrompt)
  /\ IsStr(r.modelId)
  /\ IsNum(r.score)
  /\ IsNum(r.interventionCount)
  /\ r.score.v >= 85
  /\ r.interventionCount.v <= 1

FieldOrEmpty(p, name) == IF p[name] = Absent THEN None ELSE p[name]

PredictedFlags(p) ==
  IF FieldOrEmpty(p, "risk_flags") \in {None, List(<< >>)} THEN {}
  ELSE SetOf(p.risk_flags.v)

SameModel(e, p) == FieldOrEmpty(p, "recommended_model") = e.recommended_model
SameCost(e, p) == FieldOrEmpty(p, "cost_estimate") = Word(e.cost_estimate)
SameFlags(e, p) == PredictedFlags(p) = SetOf(e.risk_flags)

\* the claimed value, in six-hundredths: r is counted in 180ths
ClaimedMetric(e, p) ==
  LET true == SetOf(e.risk_flags)
      pred == PredictedFlags(p)
      r == IF true # {} THEN (180 * Cardinality(pred \cap true)) \div Cardinality(true)
           ELSE IF pred = {} THEN 180 ELSE 90
  IN  (IF SameModel(e, p) THEN 300 ELSE 0) + r + (IF SameCost(e, p) THEN 120 ELSE 0)

\* C13: for every label and every prediction, also one that lacks fields,
\* routing_metric returns 0.5*[same model] + 0.3*r + 0.2*[same cost band], a
\* value in [0,1] that is 1.0 when model, flags and cost band are the same.
C13_RoutingMetric ==
  (call.fn = "routing_metric" /\ ret # Pending) =>
    /\ ret.raised = "none"
    /\ ret.val = ClaimedMetric(call.arg.example, call.arg.prediction)
    /\ ret.val \in 0..600
    /\ ( /\ SameModel(call.arg.example, call.arg.prediction)
         /\ SameFlags(call.arg.example, call.arg.prediction)
         /\ SameCost(call.arg.example, call.arg.prediction) ) => ret.val = 600

\* Under SpecEval a state holds a call of evaluate_predictions on its way.

\* the examples of the call, and what predict_fn gives for the j-th
NumExamples == Len(call.arg.examples)
Truth(j) == call.arg.examples[j]
Prediction(j) == Predict(call.arg.predict_fn, j).ret

\* the call has returned its results
Evaluated ==
  /\ call.fn = "evaluate_predictions"
  /\ pc = "done"
  /\ ret.raised = "none"

TrueFlags(j) == SetOf(Truth(j).risk_flags)
PredictedFlagsOf(j) ==
  IF Prediction(j).val.v.risk_flags = Absent THEN {}
  ELSE SetOf(Prediction(j).val.v.risk_flags.v)
Common(j) == Cardinality(PredictedFlagsOf(j) \cap TrueFlags(j))

ModelHits ==
  {j \in 1..NumExamples :
     Prediction(j).val.v.recommended_model = Truth(j).recommended_model}
CostHits ==
  {j \in 1..NumExamples :
     Prediction(j).val.v.cost_estimate = Word(Truth(j).cost_estimate)}
Flagged == {j \in 1..NumExamples : TrueFlags(j) # {}}

RECURSIVE SumOf(_)
SumOf(f) ==
  IF DOMAIN f = {} THEN 0
  ELSE LET j == CHOOSE k \in DOMAIN f : TRUE
       IN  f[j] + SumOf([k \in DOMAIN f \ {j} |-> f[k]])

\* a / b = c / d, a / b < c / d, and a / b in [0,1]
FracEq(x, y) == x.num * y.den = y.num * x.den
FracLess(x, y) == x.num * y.den < y.num * x.den
InUnit(x) == x.den > 0 /\ 0 <= x.num /\ x.num <= x.den

\* the means over the flagged examples, the terms counted in sixtieths
MeanRecall ==
  Frac(SumOf([j \in Flagged |-> (60 * Common(j)) \div Cardinality(TrueFlags(j))]),
       60 * Cardinality(Flagged))
MeanPrecision ==
  Frac(SumOf([j \in Flagged |->
                IF PredictedFlagsOf(j) = {} THEN 0
                ELSE (60 * Common(j)) \div Cardinality(PredictedFlagsOf(j))]),
       60 * Cardinality(Flagged))

\* C14: the results of evaluate_predictions: model_accuracy and cost_accuracy
\* are the fractions of examples predicted right, risk_recall and
\* risk_precision the means over the examples with a true flag (1.0 when
\* there is none), all four lie in [0,1], and a strict superset of the true
\* flags on a single flagged example gives recall 1.0 and precision below 1.0.
C14_EvaluationResults ==
  Evaluated =>
    /\ ret.val.n = NumExamples
    /\ NumExamples > 0 =>
         /\ FracEq(ret.val.model_accuracy, Frac(Cardinality(ModelHits), NumExamples))
         /\ FracEq(ret.val.cost_accuracy, Frac(Cardinality(CostHits), NumExamples))
    /\ ret.val.risk_examples = Cardinality(Flagged)
    /\ Flagged # {} =>
         /\ FracEq(ret.val.risk_recall, MeanRecall)
         /\ FracEq(ret.val.risk_precision, MeanPrecision)
    /\ Flagged = {} =>
         /\ FracEq(ret.val.risk_recall, Frac(1, 1))
         /\ FracEq(ret.val.risk_precision, Frac(1, 1))
    /\ InUnit(ret.val.model_accuracy)
    /\ InUnit(ret.val.cost_accuracy)
    /\ InUnit(ret.val.risk_recall)
    /\ InUnit(ret.val.risk_precision)
    /\ (NumExamples = 1 /\ Flagged = {1} /\ TrueFlags(1) \subseteq PredictedFlagsOf(1)
          /\ TrueFlags(1) # PredictedFlagsOf(1)) =>
         /\ FracEq(ret.val.risk_recall, Frac(1, 1))
         /\ FracLess(ret.val.risk_precision, Frac(1, 1))

\* one flagged example, predicted with one flag too many: recall 1, precision 1/2
C14_Witness ==
  /\ Evaluated
  /\ NumExamples = 1
  /\ Truth(1).risk_flags = << "schema-migration" >>
  /\ PredictedFlagsOf(1) = {"schema-migration", "cross-service"}
  /\ FracEq(ret.val.risk_recall, Frac(1, 1))
  /\ FracEq(ret.val.risk_precision, Frac(1, 2))

\* the prediction function fails on the j-th example: it raises, or what it
\* returns is no dict or lacks a field; in optimized_predict the function
\* that may fail is the selector it calls
FailsOn(j) ==
  IF call.arg.predict_fn.kind = "optimized_predict"
    THEN Caught(call.arg.predict_fn.outcomes[j])
  ELSE \/ Raises(Prediction(j))
       \/ ~IsDict(Prediction(j).val)
       \/ \E f \in ResultFields : Prediction(j).val.v[f] = Absent

\* the prediction the claim has counted for the j-th example
CountedPrediction(j) ==
  IF FailsOn(j) THEN heuristic_baseline.v ELSE Prediction(j).val.v

\* C15: when the prediction function fails on an example, the failure is
\* caught and reported, the safe default prediction is counted for that
\* example, and the run ends with results over all the examples.
C15_EvaluatorResilience ==
  (call.fn = "evaluate_predictions" /\ pc = "done") =>
    /\ ret.raised = "none"
    /\ ret.val.n = NumExamples
    /\ Len(out) = Cardinality({j \in 1..NumExamples : FailsOn(j)})
    /\ NumExamples > 0 =>
         /\ FracEq(ret.val.model_accuracy,
                   Frac(Cardinality({j \in 1..NumExamples :
                          CountedPrediction(j).recommended_model
                            = Truth(j).recommended_model}), NumExamples))
         /\ FracEq(ret.val.cost_accuracy,
                   Frac(Cardinality({j \in 1..NumExamples :
                          CountedPrediction(j).cost_estimate
                            = Word(Truth(j).cost_estimate)}), NumExamples))

\* Under SpecOptimize a state holds a run of optimize.main on its way.

\* the steps after the check of the number of examples have begun
PastCheck ==
  \/ pc \in {"baseline", "compile", "evaluate", "export"}
  \/ train # << >> \/ val # << >>
  \/ selector # "none"
  \/ baseline_score # None \/ optimized_score # None
  \/ artifact_file # NoFile

ErrorPrinted ==
  \E n \in DOMAIN out :
    out[n] = [text |-> "ERROR: Need at least 10 examples for optimization.",
              file |-> "stderr"]

\* C16: when load_training_data yields fewer than 10 examples, optimize.main
\* prints an error and ends with a failure exit status before the split, the
\* baseline evaluation, the compile and the artifact write, so that no
\* artifact file is written; with 10 or more examples it goes on to the split.
C16_TooFewExamplesStop ==
  /\ [](PastCheck => Len(examples) >= 10)
  /\ []((pc = "done" /\ ret.raised \in {"none", "SystemExit"}) =>
          IF Len(examples) < 10
            THEN ret = SystemExit(1) /\ ErrorPrinted /\ artifact_file = NoFile
          ELSE ret = Ret(None) /\ ~ErrorPrinted /\ artifact_file # NoFile)
  /\ [][pc = "check" =>
          IF Len(examples) < 10 THEN pc' = "done" /\ ret' = SystemExit(1)
          ELSE /\ pc' = "baseline"
               /\ train' \o val' = examples
               /\ Len(train') = SplitIdx(Len(examples), call.arg.split)]_vars

\* nine examples: the run has ended with status 1 and no artifact
C16_Witness ==
  /\ call.fn = "optimize.main"
  /\ pc = "done"
  /\ Len(examples) = 9
  /\ ret = SystemExit(1)
  /\ ErrorPrinted
  /\ artifact_file = NoFile
  /\ selector = "none"

\* Under SpecEvaluate a state holds a run of evaluate.main on its way.

HeuristicRow(label, key) ==
  \E n \in DOMAIN out :
    out[n] = [text |-> "{label:<25} {h_val:>14.1%}", label |-> label,
              h_val |-> heuristic_results[key]]

\* C17: when the artifact file does not exist and the evals file does,
\* evaluate.main ends without an exception, the heuristic baseline having
\* been evaluated over the examples from index int(len * split) on and its
\* rows of the table printed, and no optimized predictor built or called.
C17_BaselineWithoutArtifact ==
  (call.fn = "evaluate.main" /\ pc = "done"
     /\ ~call.arg.artifact.exists /\ call.arg.evals.exists) =>
    /\ ret = Ret(None)
    /\ val = SliceFrom(examples, SplitIdx(Len(examples), call.arg.split))
    /\ heuristic_results # None
    /\ heuristic_results.n = Len(val)
    /\ HeuristicRow("Model Accuracy", "model_accuracy")
    /\ HeuristicRow("Cost Accuracy", "cost_accuracy")
    /\ HeuristicRow("Risk Recall", "risk_recall")
    /\ HeuristicRow("Risk Precision", "risk_precision")
    /\ selector = "none"
    /\ optimized_results = None

====
